---- MODULE Spec2Model ----
(***************************************************************************)
(* latex2go: LaTeX-subset expression -> Go source.                         *)
(*                                                                         *)
(* The model follows the code of the lexer and Pratt parser                *)
(* (internal/domain/parser), the generator (internal/domain/generator)     *)
(* and ApplicationService.Run (internal/app).  An input string is a        *)
(* sequence of one-character strings; offsets are 0-based as in Go.        *)
(***************************************************************************)
EXTENDS Integers, Sequences, FiniteSets, TLC

(***************************************************************************)
(* Characters                                                              *)
(***************************************************************************)
\* l.ch = 0 when readPosition >= len(input)
NUL == "NUL"

BSLASH == "\\"

LowerLetters ==
  {"a","b","c","d","e","f","g","h","i","j","k","l","m",
   "n","o","p","q","r","s","t","u","v","w","x","y","z"}

UpperLetters ==
  {"A","B","C","D","E","F","G","H","I","J","K","L","M",
   "N","O","P","Q","R","S","T","U","V","W","X","Y","Z"}

isLetter(c) == c \in LowerLetters \cup UpperLetters

isDigit(c) == c \in {"0","1","2","3","4","5","6","7","8","9"}

\* unicode.IsSpace restricted to ASCII input
isSpace(c) == c \in {" ", "\t", "\n", "\r", "\f"}

\* The value of the one-point function f: ValueOf([x \in {v} |-> e]) is e
\* with x standing for the value v.
ValueOf(f) == f[CHOOSE x \in DOMAIN f : TRUE]

(***************************************************************************)
(* Lexer.  The lexer state is l.position; on ASCII input readPosition is   *)
(* position + 1 and l.ch is the character at position (NUL past the end).  *)
(***************************************************************************)
ch(input, position) ==
  IF position < Len(input) THEN input[position + 1] ELSE NUL

peekChar(input, position) == ch(input, position + 1)

RECURSIVE skipWhitespace(_, _)
skipWhitespace(input, position) ==
  IF isSpace(ch(input, position))
  THEN skipWhitespace(input, position + 1)
  ELSE position

\* position reached by `for isLetter(l.ch) { l.readChar() }`
RECURSIVE skipLetters(_, _)
skipLetters(input, position) ==
  IF isLetter(ch(input, position))
  THEN skipLetters(input, position + 1)
  ELSE position

\* input[from:to] of Go, as a sequence of characters
Slice(input, from, to) == SubSeq(input, from + 1, to)

readIdentifier(input, position) ==
  LET end == skipLetters(input, position)
  IN  [lit |-> Slice(input, position, end), position |-> end]

readCommand(input, position) ==
  LET end == skipLetters(input, position + 1)
  IN  [lit |-> Slice(input, position + 1, end), position |-> end]

RECURSIVE readNumberEnd(_, _, _)
readNumberEnd(input, position, hasDecimal) ==
  LET c == ch(input, position) IN
  IF isDigit(c)
  THEN readNumberEnd(input, position + 1, hasDecimal)
  ELSE IF c = "." /\ ~hasDecimal
       THEN IF ~isDigit(peekChar(input, position))
            THEN position
            ELSE readNumberEnd(input, position + 1, TRUE)
       ELSE position

readNumber(input, position) ==
  LET end == readNumberEnd(input, position, FALSE)
  IN  [lit |-> Slice(input, position, end), position |-> end]

\* Token{Type: tokenType, Literal: string(ch)}: Pos keeps Go's zero value
newToken(tokenType, c) == [Type |-> tokenType, Literal |-> <<c>>, Pos |-> 0]

SingleCharType(c) ==
  CASE c = "+" -> "PLUS"
    [] c = "-" -> "MINUS"
    [] c = "*" -> "ASTERISK"
    [] c = "/" -> "SLASH"
    [] c = "^" -> "CARET"
    [] c = "=" -> "EQUALS"
    [] c = "!" -> "EXCLAMATION"
    [] c = "_" -> "UNDERSCORE"
    [] c = "(" -> "LPAREN"
    [] c = ")" -> "RPAREN"
    [] c = "{" -> "LBRACE"
    [] c = "}" -> "RBRACE"
    [] OTHER   -> "ILLEGAL"

S_begin == <<"b","e","g","i","n">>
S_end   == <<"e","n","d">>

\* One call of Lexer.NextToken from lexer position `position`:
\* the token and the lexer position after the call.
NextToken(input, position) ==
  ValueOf([p \in {skipWhitespace(input, position)} |->
  ValueOf([c \in {ch(input, p)} |->
      IF c = BSLASH
      THEN ValueOf([r \in {readCommand(input, p)} |->
               [tok |-> [Type |-> IF r.lit = S_begin THEN "BEGIN"
                                  ELSE IF r.lit = S_end THEN "END"
                                  ELSE "COMMAND",
                         Literal |-> r.lit,
                         Pos |-> r.position],
                position |-> r.position]])
      ELSE IF c = NUL
      THEN [tok |-> [Type |-> "EOF", Literal |-> <<>>, Pos |-> p],
            position |-> p + 1]
      ELSE IF isLetter(c)
      THEN ValueOf([r \in {readIdentifier(input, p)} |->
               [tok |-> [Type |-> "IDENT", Literal |-> r.lit, Pos |-> p],
                position |-> r.position]])
      ELSE IF isDigit(c)
      THEN ValueOf([r \in {readNumber(input, p)} |->
               [tok |-> [Type |-> "NUMBER", Literal |-> r.lit, Pos |-> p],
                position |-> r.position]])
      ELSE [tok |-> newToken(SingleCharType(c), c), position |-> p + 1]])])

\* The tokens of successive NextToken calls up to and including the first
\* EOF, each with the lexer position after its call (End).
RECURSIVE LexFrom(_, _)
LexFrom(input, position) ==
  ValueOf([r \in {NextToken(input, position)} |->
    LET t == [Type |-> r.tok.Type, Literal |-> r.tok.Literal,
              Pos |-> r.tok.Pos, End |-> r.position]
    IN  IF r.tok.Type = "EOF" THEN <<t>>
        ELSE <<t>> \o LexFrom(input, r.position)])

\* NewLexer: readChar leaves position 0
NewLexer(input) == LexFrom(input, 0)

\* The i-th token the lexer returns (i >= 1).  After the first EOF every
\* further call returns EOF again, one position further (readChar at the
\* end of the input still adds 1 to readPosition).
TokAt(toks, i) ==
  IF i <= Len(toks) THEN toks[i]
  ELSE [Type |-> "EOF", Literal |-> <<>>,
        Pos |-> toks[Len(toks)].Pos + (i - Len(toks)),
        End |-> toks[Len(toks)].End + (i - Len(toks))]

(***************************************************************************)
(* AST (internal/domain/ast).  Every node is a record with a kind field.   *)
(* A float64 value is m * 10^e, e <= 0, m not divisible by 10 unless e = 0.*)
(***************************************************************************)
Nil == [kind |-> "nil"]

NumberLiteral(value) == [kind |-> "NumberLiteral", Value |-> value]

Variable(name) == [kind |-> "Variable", Name |-> name]

BinaryExpr(op, left, right) ==
  [kind |-> "BinaryExpr", Op |-> op, Left |-> left, Right |-> right]

FuncCall(funcName, args) ==
  [kind |-> "FuncCall", FuncName |-> funcName, Args |-> args]

SumExpr(isProduct, var, lower, upper, body) ==
  [kind |-> "SumExpr", IsProduct |-> isProduct, Var |-> var,
   Lower |-> lower, Upper |-> upper, Body |-> body]

IntegralExpr(isDefinite, var, lower, upper, body) ==
  [kind |-> "IntegralExpr", IsDefinite |-> isDefinite, Var |-> var,
   Lower |-> lower, Upper |-> upper, Body |-> body]

DerivativeExpr(isPartial, var, order, body) ==
  [kind |-> "DerivativeExpr", IsPartial |-> isPartial, Var |-> var,
   Order |-> order, Body |-> body]

LimitExpr(var, approaches, body) ==
  [kind |-> "LimitExpr", Var |-> var, Approaches |-> approaches, Body |-> body]

FactorialExpr(value) == [kind |-> "FactorialExpr", Value |-> value]

PiecewiseCase(value, condition) == [Value |-> value, Condition |-> condition]

PiecewiseExpr(cases) == [kind |-> "PiecewiseExpr", Cases |-> cases]

(***************************************************************************)
(* strconv.ParseFloat on a NUMBER literal (digits with at most one         *)
(* interior '.'): the decimal value, exact.                                *)
(***************************************************************************)
DigitVal(c) ==
  CASE c = "0" -> 0 [] c = "1" -> 1 [] c = "2" -> 2 [] c = "3" -> 3
    [] c = "4" -> 4 [] c = "5" -> 5 [] c = "6" -> 6 [] c = "7" -> 7
    [] c = "8" -> 8 [] c = "9" -> 9

RECURSIVE Normalize(_, _)
Normalize(m, e) ==
  IF m = 0 THEN [m |-> 0, e |-> 0]
  ELSE IF e < 0 /\ m % 10 = 0 THEN Normalize(m \div 10, e + 1)
  ELSE [m |-> m, e |-> e]

RECURSIVE ScanFloat(_, _, _, _, _)
ScanFloat(lit, k, m, e, seenDot) ==
  IF k > Len(lit) THEN Normalize(m, e)
  ELSE IF lit[k] = "." THEN ScanFloat(lit, k + 1, m, e, TRUE)
  ELSE ScanFloat(lit, k + 1, 10 * m + DigitVal(lit[k]),
                 IF seenDot THEN e - 1 ELSE e, seenDot)

ParseFloat(lit) == ScanFloat(lit, 1, 0, 0, FALSE)

MinusOne == [m |-> 0 - 1, e |-> 0]

(***************************************************************************)
(* Strings of the parser, as character sequences                           *)
(***************************************************************************)
S_lim   == <<"l","i","m">>
S_sum   == <<"s","u","m">>
S_prod  == <<"p","r","o","d">>
S_int   == <<"i","n","t">>
S_frac  == <<"f","r","a","c">>
S_sqrt  == <<"s","q","r","t">>
S_sin   == <<"s","i","n">>
S_cos   == <<"c","o","s">>
S_tan   == <<"t","a","n">>
S_to    == <<"t","o">>
S_cases == <<"c","a","s","e","s">>
S_partial  == <<BSLASH,"p","a","r","t","i","a","l">>
S_partial_ == S_partial \o <<" ">>

LowerSeq == <<"a","b","c","d","e","f","g","h","i","j","k","l","m",
              "n","o","p","q","r","s","t","u","v","w","x","y","z">>

UpperSeq == <<"A","B","C","D","E","F","G","H","I","J","K","L","M",
              "N","O","P","Q","R","S","T","U","V","W","X","Y","Z">>

ToLowerChar(c) ==
  IF c \in UpperLetters
  THEN LowerSeq[CHOOSE k \in 1..Len(UpperSeq) : UpperSeq[k] = c]
  ELSE c

ToUpperChar(c) ==
  IF c \in LowerLetters
  THEN UpperSeq[CHOOSE k \in 1..Len(LowerSeq) : LowerSeq[k] = c]
  ELSE c

\* strings.ToLower
ToLower(s) == [k \in 1..Len(s) |-> ToLowerChar(s[k])]

\* strings.HasPrefix, strings.TrimPrefix
HasPrefix(s, prefix) ==
  Len(s) >= Len(prefix) /\ SubSeq(s, 1, Len(prefix)) = prefix

TrimPrefix(s, prefix) ==
  IF HasPrefix(s, prefix) THEN SubSeq(s, Len(prefix) + 1, Len(s)) ELSE s

(***************************************************************************)
(* Operator precedence                                                     *)
(***************************************************************************)
LOWEST   == 1
SUM      == 2
PRODUCT  == 3
EXPONENT == 4
PREFIX   == 5
POSTFIX  == 6
CALL     == 7

precedences ==
  [PLUS |-> SUM, MINUS |-> SUM, ASTERISK |-> PRODUCT, SLASH |-> PRODUCT,
   CARET |-> EXPONENT, EXCLAMATION |-> POSTFIX, LPAREN |-> CALL,
   COMMAND |-> CALL]

\* registerPrefix / registerInfix in newStatefulParser
prefixParseFns == {"IDENT", "NUMBER", "LPAREN", "MINUS", "COMMAND", "BEGIN"}

infixParseFns == {"PLUS", "MINUS", "ASTERISK", "SLASH", "CARET", "EXCLAMATION"}

(***************************************************************************)
(* Parser state: the token stream of its lexer, the index i of curToken    *)
(* (peekToken is token i + 1) and the diagnostics.                         *)
(***************************************************************************)
newStatefulParser(input) ==
  [input |-> input, toks |-> NewLexer(input), i |-> 1, errors |-> <<>>]

curToken(p) == TokAt(p.toks, p.i)

peekToken(p) == TokAt(p.toks, p.i + 1)

\* p.l.position: the lexer has produced peekToken
lexerPosition(p) == peekToken(p).End

nextToken(p) == [p EXCEPT !.i = p.i + 1]

\* One diagnostic: "parse error at pos %d: " followed by Sprintf(format, args)
addError(p, format, args) ==
  [p EXCEPT !.errors =
     Append(@, [pos |-> curToken(p).Pos, format |-> format, args |-> args])]

peekError(p, t) ==
  addError(p, "expected next token to be %s, got %s ('%s') instead",
           <<t, peekToken(p).Type, peekToken(p).Literal>>)

peekPrecedence(p) ==
  IF peekToken(p).Type \in DOMAIN precedences
  THEN precedences[peekToken(p).Type] ELSE LOWEST

curPrecedence(p) ==
  IF curToken(p).Type \in DOMAIN precedences
  THEN precedences[curToken(p).Type] ELSE LOWEST

(***************************************************************************)
(* Results of the parse functions: the parser state after the call, the    *)
(* expression, whether an error was returned, and whether the call never   *)
(* returns (hang).                                                         *)
(***************************************************************************)
Ok(p, e) == [p |-> p, expr |-> e, err |-> FALSE, hang |-> FALSE]

Fail(p) == [p |-> p, expr |-> Nil, err |-> TRUE, hang |-> FALSE]

Hang(p) == [p |-> p, expr |-> Nil, err |-> FALSE, hang |-> TRUE]

Stopped(r) == r.err \/ r.hang

FailWith(p, format, args) == Fail(addError(p, format, args))

(***************************************************************************)
(* Pratt parser                                                            *)
(***************************************************************************)
RECURSIVE parseExpression(_, _)
RECURSIVE extendLeft(_, _, _)
RECURSIVE prefixFn(_)
RECURSIVE infixFn(_, _)
RECURSIVE parsePrefixExpression(_)
RECURSIVE parseInfixExpression(_, _)
RECURSIVE parseGroupedExpression(_)
RECURSIVE parseCommandExpression(_)
RECURSIVE parseSumCommand(_, _)
RECURSIVE parseIntCommand(_, _)
RECURSIVE parseLimBraced(_, _)
RECURSIVE collectArgs(_, _, _)
RECURSIVE finishCommand(_, _, _)
RECURSIVE parseDerivativeIdiom(_, _, _)
RECURSIVE parseLimFallback(_, _, _, _)
RECURSIVE parseLimitExpression(_, _)
RECURSIVE parsePiecewiseExpression(_)
RECURSIVE parseCases(_, _)

parseIdentifier(p) == Ok(p, Variable(curToken(p).Literal))

\* ParseFloat cannot fail on a literal of readNumber
parseNumberLiteral(p) == Ok(p, NumberLiteral(ParseFloat(curToken(p).Literal)))

parseFactorialExpression(p, left) == Ok(nextToken(p), FactorialExpr(left))

\* variant: the operand subtracted from -1
negateAsMinus(rightExpr) == BinaryExpr(<<"-">>, NumberLiteral(MinusOne), rightExpr)

\* the unary minus desugars to a multiplication by -1.0
negate(rightExpr) == BinaryExpr(<<"*">>, NumberLiteral(MinusOne), rightExpr)

\* variant: every operator parses its right operand one level lower
rightPrecedenceLower(op, precedence) == precedence - 1

\* variant: every operator parses its right operand at its own precedence
rightPrecedenceSame(op, precedence) == precedence

\* the precedence at which parseInfixExpression parses its right operand
rightPrecedence(op, precedence) ==
  IF op = <<"^">> THEN precedence - 1 ELSE precedence

prefixFn(p) ==
  LET t == curToken(p).Type IN
  CASE t = "IDENT"   -> parseIdentifier(p)
    [] t = "NUMBER"  -> parseNumberLiteral(p)
    [] t = "LPAREN"  -> parseGroupedExpression(p)
    [] t = "MINUS"   -> parsePrefixExpression(p)
    [] t = "COMMAND" -> parseCommandExpression(p)
    [] t = "BEGIN"   -> parsePiecewiseExpression(p)

infixFn(p, left) ==
  IF curToken(p).Type = "EXCLAMATION"
  THEN parseFactorialExpression(p, left)
  ELSE parseInfixExpression(p, left)

parseExpression(p, precedence) ==
  IF curToken(p).Type \notin prefixParseFns
  THEN FailWith(p, "no prefix parse function found for token %s ('%s')",
                <<curToken(p).Type, curToken(p).Literal>>)
  ELSE ValueOf([left \in {prefixFn(p)} |->
         IF Stopped(left) THEN left
         ELSE extendLeft(left.p, left.expr, precedence)])

\* the loop of parseExpression
extendLeft(p, leftExp, precedence) ==
  IF peekToken(p).Type # "EOF" /\ precedence < peekPrecedence(p)
  THEN IF peekToken(p).Type \notin infixParseFns
       THEN Ok(p, leftExp)
       ELSE ValueOf([r \in {infixFn(nextToken(p), leftExp)} |->
              IF Stopped(r) THEN r
              ELSE extendLeft(r.p, r.expr, precedence)])
  ELSE Ok(p, leftExp)

parsePrefixExpression(p) ==
  IF curToken(p).Type # "MINUS"
  THEN FailWith(p, "expected prefix operator (e.g., '-'), got %s",
                <<curToken(p).Type>>)
  ELSE LET r == parseExpression(nextToken(p), PREFIX)
       IN  IF Stopped(r) THEN r
           ELSE Ok(r.p, negate(r.expr))

parseInfixExpression(p, left) ==
  LET op == curToken(p).Literal
      precedence == curPrecedence(p)
      r == parseExpression(nextToken(p), rightPrecedence(op, precedence))
  IN  IF Stopped(r) THEN r
      ELSE Ok(r.p, BinaryExpr(op, left, r.expr))

parseGroupedExpression(p) ==
  LET r == parseExpression(nextToken(p), LOWEST)
  IN  IF Stopped(r) THEN r
      ELSE IF peekToken(r.p).Type = "RPAREN"
           THEN Ok(nextToken(r.p), r.expr)
           ELSE Fail(peekError(r.p, "RPAREN"))

(***************************************************************************)
(* Commands                                                                *)
(***************************************************************************)
NextTokens(p, n) == [p EXCEPT !.i = p.i + n]

maxLookahead == 5

\* the character scan of peekNTokens for n >= 2
RECURSIVE scanAhead(_, _, _, _)
scanAhead(input, i, skipCount, n) ==
  IF i < Len(input) /\ skipCount < n
  THEN LET c == input[i + 1] IN
       IF c \in {" ", "\t", "\n", "\r"}
       THEN scanAhead(input, i + 1, skipCount, n)
       ELSE IF c \in {"{", "}", "(", ")", "+", "-", "*", "/", "^", "_", BSLASH}
       THEN IF skipCount + 1 = n
            THEN [Type |-> IF c = BSLASH THEN "COMMAND" ELSE SingleCharType(c),
                  Literal |-> <<c>>]
            ELSE scanAhead(input, i + 1, skipCount + 1, n)
       ELSE scanAhead(input, i + 1, skipCount, n)
  ELSE [Type |-> "EOF", Literal |-> <<>>]

peekNTokens(p, n) ==
  IF n <= 0 THEN [Type |-> curToken(p).Type, Literal |-> curToken(p).Literal]
  ELSE IF n = 1
  THEN [Type |-> peekToken(p).Type, Literal |-> peekToken(p).Literal]
  ELSE scanAhead(p.input, lexerPosition(p), 2, n)

\* variant: \frac takes one argument
requiredArgsOne(lowerName) ==
  CASE lowerName = S_frac -> 1
    [] lowerName = S_lim  -> 1
    [] lowerName \in {S_sqrt, S_sin, S_cos, S_tan} -> 1
    [] OTHER -> 0 - 1

requiredArgs(lowerName) ==
  CASE lowerName = S_frac -> 2
    [] lowerName = S_lim  -> 1
    [] lowerName \in {S_sqrt, S_sin, S_cos, S_tan} -> 1
    [] OTHER -> 0 - 1

\* arity check and follow-token check at the end of parseCommandExpression
commandTail(p, funcName, args, required) ==
  IF required # 0 - 1 /\ Len(args) # required
  THEN FailWith(p, "\\%s requires %d argument(s), got %d",
                <<funcName, required, Len(args)>>)
  ELSE IF peekToken(p).Type \notin
            {"EOF", "RPAREN", "RBRACE", "PLUS", "MINUS", "ASTERISK", "SLASH", "CARET"}
  THEN FailWith(p, "unexpected token '%s' after expression", <<peekToken(p).Type>>)
  ELSE Ok(p, FuncCall(funcName, args))

\* \frac{d}{d<var>} / \frac{\partial}{\partial <var>}
isDerivativeSetup(args) ==
  /\ Len(args) = 2
  /\ args[1].kind = "Variable"
  /\ (args[1].Name = <<"d">> \/ args[1].Name = S_partial)
  /\ args[2].kind = "Variable"
  /\ (HasPrefix(args[2].Name, <<"d">>) \/ HasPrefix(args[2].Name, S_partial_))

parseDerivativeIdiom(p, funcName, args) ==
  LET den == args[2].Name
      isPartial == ~HasPrefix(den, <<"d">>)
      diffVar == IF isPartial THEN TrimPrefix(den, S_partial_)
                 ELSE TrimPrefix(den, <<"d">>)
  IN  IF peekToken(p).Type \in {"IDENT", "COMMAND", "LPAREN", "NUMBER"}
      THEN LET r == parseExpression(p, LOWEST)
           IN  IF Stopped(r) THEN r
               ELSE Ok(r.p, DerivativeExpr(isPartial, diffVar, 1, r.expr))
      ELSE commandTail(p, funcName, args, 2)

\* `for k := 0; k < 3; k++` looking for "to"
RECURSIVE lookForTo(_, _)
lookForTo(p, k) ==
  IF k < 3
  THEN IF curToken(p).Type \in {"IDENT", "COMMAND"} /\ curToken(p).Literal = S_to
       THEN nextToken(p)
       ELSE lookForTo(nextToken(p), k + 1)
  ELSE p

\* case "lim" of the arity switch: the lookahead loop, iteration i
parseLimFallback(p, funcName, args, i) ==
  IF i > maxLookahead THEN commandTail(p, funcName, args, 1)
  ELSE ValueOf([pk \in {peekNTokens(p, i)} |->
       IF pk.Type = "LBRACE"
       THEN parseLimitExpression(NextTokens(p, i), TRUE)
       ELSE IF pk.Type = "IDENT" /\ pk.Literal # <<>> /\ pk.Literal # S_to
       THEN ValueOf([a \in {parseExpression(
                              lookForTo(nextToken(NextTokens(p, i - 1)), 0),
                              LOWEST)} |->
              IF Stopped(a) THEN a
              ELSE ValueOf([b \in {parseExpression(a.p, LOWEST)} |->
                     IF Stopped(b) THEN b
                     ELSE Ok(b.p, LimitExpr(pk.Literal, a.expr, b.expr))])])
       ELSE parseLimFallback(p, funcName, args, i + 1)])

finishCommand(p, funcName, args) ==
  IF Len(args) = 0 /\ funcName # S_sum /\ funcName # S_prod
  THEN FailWith(p, "expected '{' arguments after command '\\%s', got %s",
                <<funcName, peekToken(p).Type>>)
  ELSE LET lowerName == ToLower(funcName) IN
       IF lowerName = S_frac /\ isDerivativeSetup(args)
       THEN parseDerivativeIdiom(p, funcName, args)
       ELSE IF lowerName = S_lim
       THEN parseLimFallback(p, funcName, args, 1)
       ELSE commandTail(p, funcName, args, requiredArgs(lowerName))

\* the loop `for p.peekToken.Type == LBRACE` and what follows it
collectArgs(p, funcName, args) ==
  IF peekToken(p).Type = "LBRACE"
  THEN LET p1 == nextToken(p) IN
       IF peekToken(p1).Type = "RBRACE"
       THEN FailWith(p1, "argument expression cannot be empty inside {} for command \\%s",
                     <<funcName>>)
       ELSE LET r == parseExpression(nextToken(p1), LOWEST) IN
            IF Stopped(r) THEN r
            ELSE IF peekToken(r.p).Type # "RBRACE"
            THEN IF peekToken(r.p).Type = "EOF"
                 THEN FailWith(r.p, "missing '}' after argument for command \\%s",
                               <<funcName>>)
                 ELSE Fail(peekError(r.p, "RBRACE"))
            ELSE collectArgs(nextToken(r.p), funcName, Append(args, r.expr))
  ELSE finishCommand(p, funcName, args)

\* `\lim{x to 0} body`; p has consumed the LBRACE.  Falls through to the
\* standard argument parsing without rewinding.
parseLimBraced(p, funcName) ==
  IF peekToken(p).Type = "IDENT"
  THEN LET varName == peekToken(p).Literal
           p2 == nextToken(p)
       IN  IF peekToken(p2).Type = "IDENT" /\ peekToken(p2).Literal = S_to
           THEN LET p3 == NextTokens(p2, 2) IN
                IF curToken(p3).Type = "NUMBER" /\ peekToken(p3).Type = "RBRACE"
                THEN LET r == parseExpression(NextTokens(p3, 2), LOWEST)
                     IN  IF Stopped(r) THEN r
                         ELSE Ok(r.p, LimitExpr(varName,
                                   NumberLiteral(ParseFloat(curToken(p3).Literal)),
                                   r.expr))
                ELSE collectArgs(p3, funcName, <<>>)
           ELSE collectArgs(p2, funcName, <<>>)
  ELSE collectArgs(p, funcName, <<>>)

\* \sum_{i=lower}^{upper} body and \prod
parseSumCommand(p, funcName) ==
  IF peekToken(p).Type # "UNDERSCORE"
  THEN FailWith(p, "expected '_' for lower bound after \\%s", <<funcName>>)
  ELSE LET p1 == nextToken(p) IN
  IF peekToken(p1).Type # "LBRACE"
  THEN FailWith(p1, "expected '{' after '_' in \\%s", <<funcName>>)
  ELSE LET p2 == NextTokens(p1, 2) IN
  IF curToken(p2).Type # "IDENT"
  THEN FailWith(p2, "expected identifier for summation variable in \\%s", <<funcName>>)
  ELSE LET varName == curToken(p2).Literal
           p3 == nextToken(p2) IN
  IF curToken(p3).Type # "EQUALS"
  THEN FailWith(p3, "expected '=' after variable in \\%s lower bound", <<funcName>>)
  ELSE LET lower == parseExpression(nextToken(p3), LOWEST) IN
  IF Stopped(lower) THEN lower
  ELSE IF peekToken(lower.p).Type # "RBRACE"
  THEN FailWith(lower.p, "expected '}' after lower bound in \\%s", <<funcName>>)
  ELSE LET p4 == nextToken(lower.p) IN
  IF peekToken(p4).Type # "CARET"
  THEN FailWith(p4, "expected '^' for upper bound after lower bound in \\%s", <<funcName>>)
  ELSE LET p5 == NextTokens(p4, 2) IN
  IF curToken(p5).Type # "LBRACE"
  THEN FailWith(p5, "expected '{' after '^' in \\%s", <<funcName>>)
  ELSE LET upper == parseExpression(nextToken(p5), LOWEST) IN
  IF Stopped(upper) THEN upper
  ELSE IF peekToken(upper.p).Type # "RBRACE"
  THEN FailWith(upper.p, "expected '}' after upper bound in \\%s", <<funcName>>)
  ELSE LET body == parseExpression(NextTokens(upper.p, 2), LOWEST) IN
  IF Stopped(body) THEN body
  ELSE Ok(body.p, SumExpr(funcName = S_prod, varName, lower.expr, upper.expr, body.expr))

\* the body and the differential of \int, after the optional bounds
intBody(p, isDefinite, lower, upper) ==
  LET body == parseExpression(nextToken(p), LOWEST) IN
  IF Stopped(body) THEN body
  ELSE LET hasDiff == peekToken(body.p).Type = "IDENT"
                        /\ HasPrefix(peekToken(body.p).Literal, <<"d">>)
           integrationVar == IF hasDiff
                             THEN TrimPrefix(peekToken(body.p).Literal, <<"d">>)
                             ELSE <<"x">>
       IN  Ok(IF hasDiff THEN nextToken(body.p) ELSE body.p,
              IntegralExpr(isDefinite, integrationVar, lower, upper, body.expr))

parseIntCommand(p, funcName) ==
  IF peekToken(p).Type = "UNDERSCORE"
  THEN LET p1 == nextToken(p) IN
  IF peekToken(p1).Type # "LBRACE"
  THEN FailWith(p1, "expected '{' after '_' in \\%s", <<funcName>>)
  ELSE LET lower == parseExpression(NextTokens(p1, 2), LOWEST) IN
  IF Stopped(lower) THEN lower
  ELSE IF peekToken(lower.p).Type # "RBRACE"
  THEN FailWith(lower.p, "expected '}' after lower bound in \\%s", <<funcName>>)
  ELSE LET p2 == nextToken(lower.p) IN
  IF peekToken(p2).Type # "CARET"
  THEN FailWith(p2, "expected '^' for upper bound after lower bound in \\%s", <<funcName>>)
  ELSE LET p3 == nextToken(p2) IN
  IF peekToken(p3).Type # "LBRACE"
  THEN FailWith(p3, "expected '{' after '^' in \\%s", <<funcName>>)
  ELSE LET upper == parseExpression(NextTokens(p3, 2), LOWEST) IN
  IF Stopped(upper) THEN upper
  ELSE IF peekToken(upper.p).Type # "RBRACE"
  THEN FailWith(upper.p, "expected '}' after upper bound in \\%s", <<funcName>>)
  ELSE intBody(nextToken(upper.p), TRUE, lower.expr, upper.expr)
  ELSE intBody(p, FALSE, Nil, Nil)

parseCommandExpression(p) ==
  LET funcName == curToken(p).Literal IN
  IF funcName = S_lim /\ peekToken(p).Type = "UNDERSCORE"
  THEN parseLimitExpression(nextToken(p), FALSE)
  ELSE IF funcName = S_sum \/ funcName = S_prod
  THEN parseSumCommand(p, funcName)
  ELSE IF funcName = S_int
  THEN parseIntCommand(p, funcName)
  ELSE IF funcName = S_lim /\ peekToken(p).Type = "LBRACE"
  THEN parseLimBraced(nextToken(p), funcName)
  ELSE collectArgs(p, funcName, <<>>)

(***************************************************************************)
(* \lim_{x \to a} body                                                     *)
(***************************************************************************)
\* `for cur is none of IDENT, COMMAND, NUMBER, RBRACE { p.nextToken() }`
\* before the "to".  At EOF nextToken yields EOF again: the loop never ends.
RECURSIVE skipBeforeTo(_)
skipBeforeTo(p) ==
  IF curToken(p).Type \in {"IDENT", "COMMAND", "NUMBER", "RBRACE"} THEN Ok(p, Nil)
  ELSE IF curToken(p).Type = "EOF" THEN Hang(p)
  ELSE skipBeforeTo(nextToken(p))

\* the same loop before the approach value
RECURSIVE skipBeforeValue(_)
skipBeforeValue(p) ==
  IF curToken(p).Type \in {"IDENT", "NUMBER", "COMMAND", "RBRACE"} THEN Ok(p, Nil)
  ELSE IF curToken(p).Type = "EOF" THEN Hang(p)
  ELSE skipBeforeValue(nextToken(p))

\* the four spellings of "to"; the parser state after it and toFound
findTo(p) ==
  LET cur == curToken(p)
      peek == peekToken(p)
  IN  IF cur.Type = "IDENT" /\ ToLower(cur.Literal) = S_to
      THEN [p |-> nextToken(p), toFound |-> TRUE]
      ELSE IF cur.Type = "COMMAND" /\ cur.Literal = S_to
      THEN [p |-> nextToken(p), toFound |-> TRUE]
      ELSE IF cur.Type = "COMMAND" /\ peek.Type = "IDENT"
              /\ (peek.Literal = <<"o">> \/ peek.Literal = S_to)
      THEN [p |-> NextTokens(p, 2), toFound |-> TRUE]
      ELSE IF cur.Type = "IDENT" /\ cur.Literal = <<"t">>
              /\ peek.Type = "IDENT" /\ peek.Literal = <<"o">>
      THEN [p |-> NextTokens(p, 2), toFound |-> TRUE]
      ELSE [p |-> p, toFound |-> FALSE]

parseLimitExpression(p, braceStyle) ==
  IF ~braceStyle /\ peekToken(p).Type # "LBRACE"
  THEN FailWith(p, "expected '{' after '_' in \\lim", <<>>)
  ELSE LET p1 == nextToken(IF braceStyle THEN p ELSE nextToken(p)) IN
  IF curToken(p1).Type # "IDENT"
  THEN FailWith(p1, "expected identifier for limit variable", <<>>)
  ELSE LET varName == curToken(p1).Literal IN
  ValueOf([s1 \in {skipBeforeTo(nextToken(p1))} |->
  IF s1.hang THEN s1
  ELSE ValueOf([t \in {findTo(s1.p)} |->
  ValueOf([s2 \in {skipBeforeValue(
             IF t.toFound THEN t.p
             ELSE addError(t.p,
               "warning: couldn't find 'to' in limit expression, assuming implied",
               <<>>))} |->
  IF s2.hang THEN s2
  ELSE ValueOf([approaches \in {parseExpression(s2.p, LOWEST)} |->
  IF Stopped(approaches) THEN approaches
  ELSE IF peekToken(approaches.p).Type # "RBRACE"
  THEN FailWith(approaches.p, "expected '}' after approach value in \\lim", <<>>)
  ELSE ValueOf([body \in {parseExpression(NextTokens(approaches.p, 2), LOWEST)} |->
  IF body.hang THEN body
  ELSE IF body.err
  THEN FailWith(body.p, "failed to parse limit body expression: %s", <<"err">>)
  ELSE Ok(body.p, LimitExpr(varName, approaches.expr, body.expr))])])])])])

(***************************************************************************)
(* \begin{cases} ... \end{cases}                                           *)
(***************************************************************************)
\* after the loop: \end{cases}
endCases(p, cases) ==
  IF peekToken(p).Type # "LBRACE"
  THEN FailWith(p, "expected '{' after \\end", <<>>)
  ELSE LET p1 == NextTokens(p, 2) IN
  IF curToken(p1).Type # "IDENT" \/ curToken(p1).Literal # S_cases
  THEN FailWith(p1, "expected 'cases' in \\end{}", <<>>)
  ELSE IF peekToken(p1).Type # "RBRACE"
  THEN FailWith(p1, "expected '}' after 'cases' in \\end", <<>>)
  ELSE Ok(nextToken(p1), PiecewiseExpr(cases))

\* the loop `for p.curToken.Type != END`
parseCases(p, cases) ==
  IF curToken(p).Type = "END" THEN endCases(p, cases)
  ELSE LET value == parseExpression(p, LOWEST) IN
  IF Stopped(value) THEN value
  ELSE LET hasCond == peekToken(value.p).Type = "IDENT"
                        /\ peekToken(value.p).Literal = <<"&">>
           cond == IF hasCond THEN parseExpression(nextToken(value.p), LOWEST)
                   ELSE Ok(value.p, Nil) IN
  IF Stopped(cond) THEN cond
  ELSE LET p1 == IF peekToken(cond.p).Type = "COMMAND"
                      /\ peekToken(cond.p).Literal = <<BSLASH>>
                 THEN nextToken(cond.p) ELSE cond.p
       IN  parseCases(nextToken(p1),
                      Append(cases, PiecewiseCase(value.expr, cond.expr)))

parsePiecewiseExpression(p) ==
  IF peekToken(p).Type # "LBRACE"
  THEN FailWith(p, "expected '{' after \\begin for cases environment", <<>>)
  ELSE LET p1 == NextTokens(p, 2) IN
  IF curToken(p1).Type # "IDENT" \/ curToken(p1).Literal # S_cases
  THEN FailWith(p1, "expected 'cases' for piecewise environment", <<>>)
  ELSE IF peekToken(p1).Type # "RBRACE"
  THEN FailWith(p1, "expected '}' after 'cases' in \\begin", <<>>)
  ELSE parseCases(NextTokens(p1, 2), <<>>)

(***************************************************************************)
(* Parser.ParseExpression and Parser.Parse                                 *)
(***************************************************************************)
ParseExpression(p) ==
  ValueOf([r \in {parseExpression(p, LOWEST)} |->
    IF Stopped(r) THEN r
    ELSE IF Len(r.p.errors) > 0 THEN Fail(r.p)
    ELSE IF peekToken(r.p).Type # "EOF" THEN Fail(peekError(r.p, "EOF"))
    ELSE r])

\* ok: err == nil; expr: the AST; errors: the diagnostics joined into the
\* returned error; hang: the call does not return
Parse(latexString) ==
  ValueOf([r \in {ParseExpression(newStatefulParser(latexString))} |->
    [ok |-> ~r.err /\ ~r.hang /\ Len(r.p.errors) = 0,
     expr |-> IF ~r.err /\ ~r.hang /\ Len(r.p.errors) = 0 THEN r.expr ELSE Nil,
     errors |-> r.p.errors,
     hang |-> r.hang]])

(***************************************************************************)
(* Generator: text helpers                                                 *)
(***************************************************************************)
\* a character sequence as a string
RECURSIVE Str(_)
Str(cs) == IF cs = <<>> THEN "" ELSE cs[1] \o Str(Tail(cs))

RECURSIVE Pow10(_)
Pow10(n) == IF n <= 0 THEN 1 ELSE 10 * Pow10(n - 1)

RECURSIVE NumDigits(_)
NumDigits(n) == IF n < 10 THEN 1 ELSE 1 + NumDigits(n \div 10)

RECURSIVE StripZeros(_)
StripZeros(n) == IF n # 0 /\ n % 10 = 0 THEN StripZeros(n \div 10) ELSE n

\* n in decimal, left-padded with zeros to width digits (empty for width 0)
RECURSIVE Padded(_, _)
Padded(n, width) ==
  IF width <= 0 THEN ""
  ELSE Padded(n \div 10, width - 1) \o ToString(n % 10)

\* fmt.Sprintf("%g", v): the shortest decimal, in exponent form when the
\* decimal exponent is below -4 or at least 6
FormatG(v) ==
  LET abs  == IF v.m < 0 THEN 0 - v.m ELSE v.m
      sign == IF v.m < 0 THEN "-" ELSE ""
      sig  == StripZeros(abs)
      nd   == NumDigits(sig)
      exp  == NumDigits(abs) + v.e - 1
      scale == Pow10(0 - v.e)
  IN  IF abs = 0 THEN "0"
      ELSE IF exp < 0 - 4 \/ exp >= 6
      THEN sign \o ToString(sig \div Pow10(nd - 1))
             \o (IF nd > 1 THEN "." \o Padded(sig % Pow10(nd - 1), nd - 1) ELSE "")
             \o "e" \o (IF exp < 0 THEN "-" ELSE "+")
             \o (LET ae == IF exp < 0 THEN 0 - exp ELSE exp
                 IN  IF ae < 10 THEN "0" \o ToString(ae) ELSE ToString(ae))
      ELSE IF v.e = 0 THEN sign \o ToString(abs)
      ELSE sign \o ToString(abs \div scale) \o "." \o Padded(abs % scale, 0 - v.e)

\* cases.Title(language.English, cases.Compact) on a run of letters
Title(name) ==
  [k \in 1..Len(name) |->
     IF k = 1 THEN ToUpperChar(name[k]) ELSE ToLowerChar(name[k])]

supportedMathFuncs ==
  {<<"S","q","r","t">>, <<"S","i","n">>, <<"C","o","s">>, <<"T","a","n">>,
   <<"P","o","w">>}

S_pow == <<"p","o","w">>

\* the FuncCall is lowered to a math.* call
isSupported(funcName) ==
  Title(funcName) \in supportedMathFuncs \/ funcName = S_pow

\* strings.Join
RECURSIVE Join(_, _)
Join(parts, sep) ==
  IF Len(parts) = 0 THEN ""
  ELSE IF Len(parts) = 1 THEN parts[1]
  ELSE parts[1] \o sep \o Join(Tail(parts), sep)

RECURSIVE AnyTrue(_)
AnyTrue(bs) == IF bs = <<>> THEN FALSE ELSE bs[1] \/ AnyTrue(Tail(bs))

(***************************************************************************)
(* Generator.generateExpr: the Go snippet, whether it needs "math", and    *)
(* whether the call panics (index out of range on an empty case list).     *)
(* genText(e, nl) is the snippet with every line break written as nl, so   *)
(* that indent(code, "\t") is the text with nl = "\n\t" after a tab.        *)
(***************************************************************************)
Snippet(code, needsMath) == [code |-> code, needsMath |-> needsMath, panic |-> FALSE]

Panic == [code |-> "", needsMath |-> FALSE, panic |-> TRUE]

RECURSIVE genText(_, _)
RECURSIVE generateCases(_, _, _, _)

\* the DerivativeExpr case
derivativeCode(var, order, bodyCode, nl) ==
  "func() float64 {" \o nl
  \o "    // Numerical differentiation using central difference" \o nl
  \o "    h := 0.0001 // Small step size" \o nl
  \o (IF order = 1
      THEN "    " \o var \o " := " \o var \o " // Original point" \o nl
        \o "    fwd := func() float64 { " \o var \o " := " \o var \o " + h; return "
             \o bodyCode \o "; }() // f(x+h)" \o nl
        \o "    bwd := func() float64 { " \o var \o " := " \o var \o " - h; return "
             \o bodyCode \o "; }() // f(x-h)" \o nl
        \o "    return (fwd - bwd) / (2.0 * h)" \o nl
      ELSE IF order = 2
      THEN "    " \o var \o " := " \o var \o " // Original point" \o nl
        \o "    fwd := func() float64 { " \o var \o " := " \o var \o " + h; return "
             \o bodyCode \o "; }() // f(x+h)" \o nl
        \o "    ctr := " \o bodyCode \o " // f(x)" \o nl
        \o "    bwd := func() float64 { " \o var \o " := " \o var \o " - h; return "
             \o bodyCode \o "; }() // f(x-h)" \o nl
        \o "    return (fwd - 2.0*ctr + bwd) / (h * h)" \o nl
      ELSE "    // Higher-order derivatives not supported" \o nl
        \o "    return 0.0" \o nl)
  \o "}()"

\* the LimitExpr case
limitCode(var, approachesCode, bodyCode, nl) ==
  "func() float64 {" \o nl
  \o "    // Approximating limit by evaluating at a point very close to the target" \o nl
  \o "    epsilon := 1e-10 // Small value for approximation" \o nl
  \o "    target := " \o approachesCode \o " // Value approached" \o nl
  \o "    " \o var \o " := float64(target) + epsilon // Set variable slightly above target" \o nl
  \o "    return " \o bodyCode \o " // Evaluate expression" \o nl
  \o "}()"

\* the definite IntegralExpr case
integralCode(var, lowerCode, upperCode, bodyCode, nl) ==
  "func() float64 {" \o nl
  \o "    a := " \o lowerCode \o " // Lower bound" \o nl
  \o "    b := " \o upperCode \o " // Upper bound" \o nl
  \o "    n := 1000 // Number of intervals for numerical integration" \o nl
  \o "    h := (b - a) / float64(n)" \o nl
  \o "    sum := 0.0" \o nl
  \o "    for i := 0; i <= n; i++ {" \o nl
  \o "        " \o var \o " := a + float64(i)*h // Integration variable" \o nl
  \o "        fx := " \o bodyCode \o " // Integrand" \o nl
  \o "        weight := 1.0" \o nl
  \o "        if i == 0 || i == n {" \o nl
  \o "            weight = 0.5" \o nl
  \o "        }" \o nl
  \o "        sum += weight * fx" \o nl
  \o "    }" \o nl
  \o "    return sum * h" \o nl
  \o "}()"

\* the SumExpr case
sumCode(isProduct, idx, lowCode, upCode, bodyCode, nl) ==
  "result := " \o (IF isProduct THEN "1.0" ELSE "0.0") \o "" \o nl
  \o "for " \o idx \o " := float64(int(" \o lowCode \o ")); " \o idx
     \o " <= float64(int(" \o upCode \o ")); " \o idx \o "++ {" \o nl
  \o "    result = result " \o (IF isProduct THEN "*" ELSE "+")
     \o " (" \o bodyCode \o ")" \o nl
  \o "}" \o nl
  \o "return result"

\* the lines of the cases from index i on, and their needsMath
generateCases(cases, i, n, nl) ==
  IF i > n THEN Snippet("", FALSE)
  ELSE ValueOf([c \in {cases[i]} |->
       ValueOf([value \in {genText(c.Value, nl)} |->
       ValueOf([cond \in {IF c.Condition = Nil THEN Snippet("", FALSE)
                          ELSE genText(c.Condition, nl)} |->
       ValueOf([rest \in {generateCases(cases, i + 1, n, nl)} |->
       LET lines ==
             IF c.Condition = Nil
             THEN IF i = n
                  THEN "    // Default case" \o nl
                    \o "    return " \o value.code \o "" \o nl
                  ELSE "    // ERROR: Unconditional case not at end" \o nl
                    \o "    return " \o value.code \o "" \o nl
             ELSE IF i = 1
                  THEN "    if " \o cond.code \o " {" \o nl
                    \o "        return " \o value.code \o "" \o nl
                    \o "    }" \o nl
                  ELSE "    else if " \o cond.code \o " {" \o nl
                    \o "        return " \o value.code \o "" \o nl
                    \o "    }" \o nl
       IN  IF value.panic \/ cond.panic \/ rest.panic THEN Panic
           ELSE Snippet(lines \o rest.code,
                        value.needsMath \/ cond.needsMath \/ rest.needsMath)])])])])

genText(e, nl) ==
  CASE e.kind = "NumberLiteral" -> Snippet(FormatG(e.Value), FALSE)
    [] e.kind = "Variable" -> Snippet(Str(e.Name), FALSE)
    [] e.kind = "BinaryExpr" ->
         LET l == genText(e.Left, nl)
             r == genText(e.Right, nl)
         IN  IF l.panic \/ r.panic THEN Panic
             ELSE IF e.Op = <<"^">>
             THEN Snippet("math.Pow(" \o l.code \o ", " \o r.code \o ")", TRUE)
             ELSE Snippet(l.code \o " " \o Str(e.Op) \o " " \o r.code,
                          l.needsMath \/ r.needsMath)
    [] e.kind = "FuncCall" ->
         IF e.FuncName = S_frac
         THEN IF Len(e.Args) # 2 THEN Snippet("", FALSE)
              ELSE LET num == genText(e.Args[1], nl)
                       den == genText(e.Args[2], nl)
                   IN  IF num.panic \/ den.panic THEN Panic
                       ELSE Snippet("(" \o num.code \o ") / (" \o den.code \o ")",
                                    num.needsMath \/ den.needsMath)
         ELSE LET args == [k \in 1..Len(e.Args) |-> genText(e.Args[k], nl)]
              IN  IF AnyTrue([k \in 1..Len(args) |-> args[k].panic]) THEN Panic
                  ELSE IF ~isSupported(e.FuncName)
                  THEN Snippet("/* unsupported function: " \o Str(e.FuncName) \o " */",
                               FALSE)
                  ELSE Snippet("math." \o Str(Title(e.FuncName)) \o "("
                                 \o Join([k \in 1..Len(args) |-> args[k].code], ", ")
                                 \o ")", TRUE)
    [] e.kind = "DerivativeExpr" ->
         LET body == genText(e.Body, nl)
         IN  IF body.panic THEN Panic
             ELSE Snippet(derivativeCode(Str(e.Var), e.Order, body.code, nl), TRUE)
    [] e.kind = "PiecewiseExpr" ->
         LET n == Len(e.Cases) IN
         ValueOf([cs \in {generateCases(e.Cases, 1, n, nl)} |->
             IF cs.panic \/ n = 0 THEN Panic
             ELSE LET noDefault == e.Cases[n].Condition # Nil
                  IN  Snippet("func() float64 {" \o nl \o cs.code
                                \o (IF noDefault
                                    THEN "    // No default case provided, returning NaN" \o nl
                                      \o "    return math.NaN()" \o nl
                                    ELSE "")
                                \o "}()",
                              cs.needsMath \/ noDefault)])
    [] e.kind = "LimitExpr" ->
         LET body == genText(e.Body, nl)
             approaches == genText(e.Approaches, nl)
         IN  IF body.panic \/ approaches.panic THEN Panic
             ELSE Snippet(limitCode(Str(e.Var), approaches.code, body.code, nl),
                          body.needsMath \/ approaches.needsMath)
    [] e.kind = "IntegralExpr" ->
         LET body == genText(e.Body, nl)
         IN  IF body.panic THEN Panic
             ELSE IF e.IsDefinite
             THEN LET lower == genText(e.Lower, nl)
                      upper == genText(e.Upper, nl)
                  IN  IF lower.panic \/ upper.panic THEN Panic
                      ELSE Snippet(integralCode(Str(e.Var), lower.code, upper.code,
                                                body.code, nl),
                                   body.needsMath \/ lower.needsMath \/ upper.needsMath)
             ELSE Snippet("/* Symbolic integration of " \o body.code
                            \o " with respect to " \o Str(e.Var) \o " not supported */",
                          body.needsMath)
    [] e.kind = "FactorialExpr" ->
         LET value == genText(e.Value, nl)
         IN  IF value.panic THEN Panic
             ELSE Snippet("math.Gamma(" \o value.code \o " + 1.0)", TRUE)
    [] e.kind = "SumExpr" ->
         LET low == genText(e.Lower, nl)
             up == genText(e.Upper, nl)
             body == genText(e.Body, nl)
         IN  IF low.panic \/ up.panic \/ body.panic THEN Panic
             ELSE Snippet(sumCode(e.IsProduct, Str(e.Var), low.code, up.code, body.code, nl),
                          low.needsMath \/ up.needsMath \/ body.needsMath)
    [] OTHER -> Snippet("", FALSE)

generateExpr(e) == genText(e, "\n")

\* indent(generateExpr(e).code, prefix)
indent(e, prefix) == prefix \o genText(e, "\n" \o prefix).code

(***************************************************************************)
(* Generate: parameter collection.                                         *)
(***************************************************************************)
goKeywords ==
  { <<"b","r","e","a","k">>, <<"d","e","f","a","u","l","t">>, <<"f","u","n","c">>,
    <<"i","n","t","e","r","f","a","c","e">>, <<"s","e","l","e","c","t">>,
    <<"c","a","s","e">>, <<"d","e","f","e","r">>, <<"g","o">>, <<"m","a","p">>,
    <<"s","t","r","u","c","t">>, <<"c","h","a","n">>, <<"e","l","s","e">>,
    <<"g","o","t","o">>, <<"p","a","c","k","a","g","e">>, <<"s","w","i","t","c","h">>,
    <<"c","o","n","s","t">>, <<"f","a","l","l","t","h","r","o","u","g","h">>,
    <<"i","f">>, <<"r","a","n","g","e">>, <<"t","y","p","e">>,
    <<"c","o","n","t","i","n","u","e">>, <<"f","o","r">>, <<"i","m","p","o","r","t">>,
    <<"r","e","t","u","r","n">>, <<"v","a","r">>,
    <<"t","r","u","e">>, <<"f","a","l","s","e">>, <<"n","i","l">>, <<"i","o","t","a">> }

sanitizeVariableName(name) ==
  IF name \in goKeywords THEN name \o <<"_">> ELSE name

RECURSIVE collect(_, _)
RECURSIVE collectAll(_, _)

\* the names the closure collect adds to vars
collect(e, loopVar) ==
  CASE e.kind = "nil" -> {}
    [] e.kind = "Variable" ->
         IF e.Name # loopVar THEN {sanitizeVariableName(e.Name)} ELSE {}
    [] e.kind = "BinaryExpr" -> collect(e.Left, loopVar) \cup collect(e.Right, loopVar)
    [] e.kind = "FuncCall" ->
         IF e.FuncName # S_frac THEN collectAll(e.Args, loopVar)
         ELSE IF Len(e.Args) = 2
              THEN collect(e.Args[1], loopVar) \cup collect(e.Args[2], loopVar)
              ELSE {}
    [] e.kind = "SumExpr" ->
         collect(e.Lower, loopVar) \cup collect(e.Upper, loopVar)
           \cup collect(e.Body, e.Var)
    [] e.kind = "IntegralExpr" ->
         (IF e.IsDefinite
          THEN collect(e.Lower, loopVar) \cup collect(e.Upper, loopVar) ELSE {})
           \cup collect(e.Body, e.Var)
    [] e.kind = "DerivativeExpr" -> collect(e.Body, e.Var)
    [] e.kind = "LimitExpr" -> collect(e.Approaches, loopVar) \cup collect(e.Body, e.Var)
    [] e.kind = "FactorialExpr" -> collect(e.Value, loopVar)
    [] e.kind = "PiecewiseExpr" ->
         UNION { collect(e.Cases[k].Value, loopVar)
                   \cup collect(e.Cases[k].Condition, loopVar) : k \in 1..Len(e.Cases) }
    [] OTHER -> {}

collectAll(args, loopVar) ==
  IF args = <<>> THEN {}
  ELSE collect(args[1], loopVar) \cup collectAll(Tail(args), loopVar)

\* byte order of the characters that can occur in a name
OrdSeq == <<" ", "&">> \o UpperSeq \o <<BSLASH, "_">> \o LowerSeq

Ord(c) == IF \E k \in 1..Len(OrdSeq) : OrdSeq[k] = c
          THEN CHOOSE k \in 1..Len(OrdSeq) : OrdSeq[k] = c
          ELSE 0

RECURSIVE Less(_, _)
\* a < b as Go strings
Less(a, b) ==
  IF b = <<>> THEN FALSE
  ELSE IF a = <<>> THEN TRUE
  ELSE IF a[1] # b[1] THEN Ord(a[1]) < Ord(b[1])
  ELSE Less(Tail(a), Tail(b))

RECURSIVE SortStrings(_)
\* sort.Strings over the key set of vars
SortStrings(names) ==
  IF names = {} THEN <<>>
  ELSE LET least == CHOOSE a \in names : \A b \in names \ {a} : Less(a, b)
       IN  <<least>> \o SortStrings(names \ {least})

\* names, in the order of the parameter list
paramNames(root) == SortStrings(collect(root, <<>>))

\* params
paramList(names) ==
  Join([k \in 1..Len(names) |-> Str(names[k]) \o " float64"], ", ")

(***************************************************************************)
(* format.Source accepts exactly the sources that parse as a Go file.      *)
(* Shape(e) is the token skeleton of generateExpr(e).code: "E" a complete  *)
(* operand, an operator character, "S" the statement block of a SumExpr,   *)
(* "X" text no Go expression contains; a comment leaves no token.          *)
(***************************************************************************)
GoReserved ==
  goKeywords \ { <<"t","r","u","e">>, <<"f","a","l","s","e">>, <<"n","i","l">>,
                 <<"i","o","t","a">> }

\* an identifier token of Go
IsIdent(name) ==
  /\ name # <<>>
  /\ \A k \in 1..Len(name) : isLetter(name[k])
  /\ name \notin GoReserved

RECURSIVE ExprFrom(_, _, _)
\* the tokens from k on continue a Go expression; operand: one was just read
ExprFrom(sh, k, operand) ==
  IF k > Len(sh) THEN operand
  ELSE IF operand THEN sh[k] \in {"+", "-", "*", "/"} /\ ExprFrom(sh, k + 1, FALSE)
  ELSE IF sh[k] = "E" THEN ExprFrom(sh, k + 1, TRUE)
  ELSE sh[k] \in {"+", "-", "*"} /\ ExprFrom(sh, k + 1, FALSE)

\* the skeleton is one Go expression
ExprOK(sh) == ExprFrom(sh, 1, FALSE)

\* the skeleton may follow "return" (or end an argument list after ", ")
ReturnOK(sh) == sh = <<>> \/ ExprOK(sh)

Operand(ok) == IF ok THEN <<"E">> ELSE <<"X">>

RECURSIVE HasCommentClose(_)
\* generateExpr(e).code contains the characters that close a comment
HasCommentClose(e) ==
  CASE e.kind = "BinaryExpr" -> HasCommentClose(e.Left) \/ HasCommentClose(e.Right)
    [] e.kind = "FuncCall" ->
         IF e.FuncName = S_frac
         THEN Len(e.Args) = 2 /\ (HasCommentClose(e.Args[1]) \/ HasCommentClose(e.Args[2]))
         ELSE ~isSupported(e.FuncName)
                \/ \E k \in 1..Len(e.Args) : HasCommentClose(e.Args[k])
    [] e.kind = "DerivativeExpr" -> e.Order \in {1, 2} /\ HasCommentClose(e.Body)
    [] e.kind = "PiecewiseExpr" ->
         \E k \in 1..Len(e.Cases) :
            HasCommentClose(e.Cases[k].Value) \/ HasCommentClose(e.Cases[k].Condition)
    [] e.kind = "LimitExpr" -> HasCommentClose(e.Approaches) \/ HasCommentClose(e.Body)
    [] e.kind = "IntegralExpr" ->
         ~e.IsDefinite \/ HasCommentClose(e.Lower) \/ HasCommentClose(e.Upper)
           \/ HasCommentClose(e.Body)
    [] e.kind = "FactorialExpr" -> HasCommentClose(e.Value)
    [] e.kind = "SumExpr" ->
         HasCommentClose(e.Lower) \/ HasCommentClose(e.Upper) \/ HasCommentClose(e.Body)
    [] OTHER -> FALSE

RECURSIVE Shape(_)
Shape(e) ==
  CASE e.kind = "NumberLiteral" -> IF e.Value.m < 0 THEN <<"-", "E">> ELSE <<"E">>
    [] e.kind = "Variable" ->
         IF e.Name = <<>> THEN <<>> ELSE Operand(IsIdent(e.Name))
    [] e.kind = "BinaryExpr" ->
         IF e.Op = <<"^">>
         THEN Operand(ExprOK(Shape(e.Left)) /\ ReturnOK(Shape(e.Right)))
         ELSE Shape(e.Left)
                \o (IF e.Op \in {<<"+">>, <<"-">>, <<"*">>, <<"/">>}
                    THEN e.Op ELSE <<"X">>)
                \o Shape(e.Right)
    [] e.kind = "FuncCall" ->
         IF e.FuncName = S_frac
         THEN IF Len(e.Args) # 2 THEN <<>>
              ELSE Operand(ExprOK(Shape(e.Args[1])) /\ ExprOK(Shape(e.Args[2])))
         ELSE IF ~isSupported(e.FuncName) THEN <<>>
         ELSE LET n == Len(e.Args)
              IN  Operand(\A k \in 1..n :
                             IF k < n THEN ExprOK(Shape(e.Args[k]))
                             ELSE ReturnOK(Shape(e.Args[k])))
    [] e.kind = "DerivativeExpr" ->
         IF e.Order = 1 THEN Operand(IsIdent(e.Var) /\ ReturnOK(Shape(e.Body)))
         ELSE IF e.Order = 2 THEN Operand(IsIdent(e.Var) /\ ExprOK(Shape(e.Body)))
         ELSE <<"E">>
    [] e.kind = "PiecewiseExpr" ->
         Operand(\A k \in 1..Len(e.Cases) :
                    /\ ReturnOK(Shape(e.Cases[k].Value))
                    /\ e.Cases[k].Condition # Nil =>
                         k = 1 /\ ExprOK(Shape(e.Cases[k].Condition)))
    [] e.kind = "LimitExpr" ->
         Operand(ExprOK(Shape(e.Approaches)) /\ IsIdent(e.Var)
                   /\ ReturnOK(Shape(e.Body)))
    [] e.kind = "IntegralExpr" ->
         IF e.IsDefinite
         THEN Operand(ExprOK(Shape(e.Lower)) /\ ExprOK(Shape(e.Upper))
                        /\ IsIdent(e.Var) /\ ExprOK(Shape(e.Body)))
         ELSE IF HasCommentClose(e.Body) THEN <<"X">> ELSE <<>>
    [] e.kind = "FactorialExpr" -> Operand(ExprOK(Shape(e.Value) \o <<"+", "E">>))
    [] e.kind = "SumExpr" ->
         IF /\ IsIdent(e.Var)
            /\ ReturnOK(Shape(e.Lower))
            /\ ReturnOK(Shape(e.Upper))
            /\ ExprOK(Shape(e.Body))
         THEN <<"S">> ELSE <<"X">>
    [] OTHER -> <<>>

\* the assembled file parses: package clause, signature and function body
SourceOK(root, pkgName, funcName, names) ==
  /\ IsIdent(pkgName)
  /\ IsIdent(funcName)
  /\ \A k \in 1..Len(names) :
        /\ names[k] # <<>>
        /\ names[k] \notin GoReserved
        /\ \A j \in 1..Len(names[k]) : isLetter(names[k][j]) \/ names[k][j] = "_"
  /\ IF root.kind = "SumExpr" THEN Shape(root) = <<"S">>
     ELSE ReturnOK(Shape(root))

(***************************************************************************)
(* Generate.                                                               *)
(***************************************************************************)
RECURSIVE startsUnsupported(_)
\* strings.HasPrefix(codeBody, "/* unsupported function:")
startsUnsupported(e) ==
  CASE e.kind = "FuncCall" -> e.FuncName # S_frac /\ ~isSupported(e.FuncName)
    [] e.kind = "BinaryExpr" -> e.Op # <<"^">> /\ startsUnsupported(e.Left)
    [] OTHER -> FALSE

RECURSIVE unsupportedFuncName(_)
\* what Sscanf reads for %s: the run of non-space characters after the colon
unsupportedFuncName(e) ==
  IF e.kind = "BinaryExpr" THEN unsupportedFuncName(e.Left)
  ELSE IF e.FuncName = <<>> THEN "*/" ELSE Str(e.FuncName)

NoError == [kind |-> "none"]

\* fmt.Errorf("unsupported LaTeX function: %s", unsupportedFuncName)
UnsupportedError(name) ==
  [kind |-> "unsupported", msg |-> "unsupported LaTeX function: " \o name]

\* fmt.Errorf("failed to format generated code: %w\nSource:\n%s", err, src)
FormatError(src) == [kind |-> "format", src |-> src]

\* header
header(pkgName, needsMath) ==
  IF needsMath
  THEN "package " \o Str(pkgName) \o "\n\nimport \"math\"\n\n"
  ELSE "package " \o Str(pkgName) \o "\n\n"

\* funcBody
funcBody(root, funcName, params) ==
  IF root.kind = "SumExpr"
  THEN "func " \o Str(funcName) \o "(" \o params \o ") float64 {\n"
         \o indent(root, "\t") \o "\n}"
  ELSE "func " \o Str(funcName) \o "(" \o params \o ") float64 {\n\treturn "
         \o generateExpr(root).code \o "\n}"

\* Generate, were it to return no source with a formatting error
GenerateWithoutSource(root, pkgName, funcName) ==
  ValueOf([g \in {generateExpr(root)} |->
    IF g.panic
    THEN [code |-> "", formatted |-> FALSE, err |-> NoError, panic |-> TRUE]
    ELSE IF startsUnsupported(root)
    THEN [code |-> "", formatted |-> FALSE,
          err |-> UnsupportedError(unsupportedFuncName(root)), panic |-> FALSE]
    ELSE ValueOf([names \in {paramNames(root)} |->
    ValueOf([src \in {header(pkgName, g.needsMath)
                        \o funcBody(root, funcName, paramList(names))} |->
    IF ~SourceOK(root, pkgName, funcName, names)
    THEN [code |-> "", formatted |-> FALSE, err |-> FormatError(src), panic |-> FALSE]
    ELSE [code |-> src, formatted |-> TRUE, err |-> NoError, panic |-> FALSE]])])])

\* Generate returns (code, err); formatted tells that code is the gofmt
\* rendering of src rather than src itself; panic that the call never returns
Generate(root, pkgName, funcName) ==
  ValueOf([g \in {generateExpr(root)} |->
    IF g.panic
    THEN [code |-> "", formatted |-> FALSE, err |-> NoError, panic |-> TRUE]
    ELSE IF startsUnsupported(root)
    THEN [code |-> "", formatted |-> FALSE,
          err |-> UnsupportedError(unsupportedFuncName(root)), panic |-> FALSE]
    ELSE ValueOf([names \in {paramNames(root)} |->
    ValueOf([src \in {header(pkgName, g.needsMath)
                        \o funcBody(root, funcName, paramList(names))} |->
    IF ~SourceOK(root, pkgName, funcName, names)
    THEN [code |-> src, formatted |-> FALSE, err |-> FormatError(src), panic |-> FALSE]
    ELSE [code |-> src, formatted |-> TRUE, err |-> NoError, panic |-> FALSE]])])])

(***************************************************************************)
(* ApplicationService.Run as a state machine.  The provider is the input   *)
(* port: what GetLatexInput will return.                                   *)
(***************************************************************************)
VARIABLES provider, pc, latexInput, config, parsed, goCode, output, runErr,
          calls, lexers

vars == <<provider, pc, latexInput, config, parsed, goCode, output, runErr,
          calls, lexers>>

None == [kind |-> "none"]

\* a successful provider answer
Provide(input, pkgName, funcName) ==
  [failed |-> FALSE, input |-> input,
   config |-> [PackageName |-> pkgName, FuncName |-> funcName]]

\* the provider cannot read its input
ProviderFailure ==
  [failed |-> TRUE, input |-> <<>>, config |-> [PackageName |-> <<>>, FuncName |-> <<>>]]

DefaultPackage == <<"m","a","i","n">>
DefaultFunc == <<"c","a","l","c","u","l","a","t","e">>

\* the k-th operand name of a generated input
VarName(k) == <<LowerSeq[k]>>

Ops == {"+", "-", "*", "/", "^"}

\* operand k, bare, with a unary minus, or with a factorial
Atoms(k) ==
  {VarName(k), <<"-">> \o VarName(k), VarName(k) \o <<"!">>}

MaxOps == 2

\* operand k and an operator in front of each of rest
ArithBefore(k, rest) ==
  { a \o <<" ", op, " ">> \o r : a \in Atoms(k), op \in Ops, r \in rest }

RECURSIVE ArithFrom(_, _)
\* operand k followed by at most n more "op operand" pairs
ArithFrom(k, n) ==
  IF n = 0 THEN Atoms(k)
  ELSE Atoms(k) \cup ArithBefore(k, ArithFrom(k + 1, n - 1))

\* parenthesis-free arithmetic
ArithInputs == ArithFrom(1, MaxOps)

\* one parenthesised pair
GroupInputs ==
  UNION { { <<"(", "a", " ", o1, " ", "b", ")", " ", o2, " ", "c">>,
            <<"a", " ", o1, " ", "(", "b", " ", o2, " ", "c", ")">>,
            <<"-", " ", "(", "a", " ", o1, " ", "b", ")">>,
            <<"2", " ", o1, " ", "(", "x", " ", o2, " ", "y", ")">> }
          : o1 \in Ops, o2 \in Ops }

TypeOK ==
  /\ pc \in {"start", "parse", "generate", "write", "done", "hung", "panicked"}
  /\ runErr \in {"", "failed to get latex input", "failed to parse latex",
                 "failed to generate go code", "failed to write go code"}

InitWith(providers) ==
  /\ provider \in providers
  /\ pc = "start"
  /\ latexInput = <<>>
  /\ config = [PackageName |-> <<>>, FuncName |-> <<>>]
  /\ parsed = None
  /\ goCode = None
  /\ output = None
  /\ runErr = ""
  /\ calls = <<>>
  /\ lexers = <<>>

\* 1. Get input from the provider
RunGetLatexInput ==
  /\ pc = "start"
  /\ IF provider.failed
     THEN /\ runErr' = "failed to get latex input"
          /\ pc' = "done"
          /\ UNCHANGED <<latexInput, config>>
     ELSE /\ latexInput' = provider.input
          /\ config' = provider.config
          /\ pc' = "parse"
          /\ UNCHANGED runErr
  /\ UNCHANGED <<provider, parsed, goCode, output>>
  /\ UNCHANGED <<calls, lexers>>

\* 2. Parse the LaTeX string; a parse that loops forever never returns
RunParse ==
  /\ pc = "parse"
  /\ parsed' = Parse(latexInput)
  /\ IF parsed'.hang
     THEN pc' = "hung" /\ UNCHANGED runErr
     ELSE IF ~parsed'.ok
     THEN pc' = "done" /\ runErr' = "failed to parse latex"
     ELSE pc' = "generate" /\ UNCHANGED runErr
  /\ UNCHANGED <<provider, latexInput, config, goCode, output>>
  /\ UNCHANGED <<calls, lexers>>

\* step 3, were Run to go on to the writer whatever Generate returned
RunGenerateIgnoringError ==
  /\ pc = "generate"
  /\ goCode' = Generate(parsed.expr, config.PackageName, config.FuncName)
  /\ IF goCode'.panic
     THEN pc' = "panicked" /\ UNCHANGED runErr
     ELSE pc' = "write" /\ UNCHANGED runErr
  /\ UNCHANGED <<provider, latexInput, config, parsed, output>>
  /\ UNCHANGED <<calls, lexers>>

\* 3. Generate Go code; a panic ends the program
RunGenerate ==
  /\ pc = "generate"
  /\ goCode' = Generate(parsed.expr, config.PackageName, config.FuncName)
  /\ IF goCode'.panic
     THEN pc' = "panicked" /\ UNCHANGED runErr
     ELSE IF goCode'.err # NoError
     THEN pc' = "done" /\ runErr' = "failed to generate go code"
     ELSE pc' = "write" /\ UNCHANGED runErr
  /\ UNCHANGED <<provider, latexInput, config, parsed, output>>
  /\ UNCHANGED <<calls, lexers>>

\* 4. Write the output; the writer may fail
RunWriteGoCode ==
  /\ pc = "write"
  /\ \E writeOK \in BOOLEAN :
        IF writeOK
        THEN output' = [kind |-> "written", code |-> goCode.code] /\ UNCHANGED runErr
        ELSE runErr' = "failed to write go code" /\ UNCHANGED output
  /\ pc' = "done"
  /\ UNCHANGED <<provider, latexInput, config, parsed, goCode>>
  /\ UNCHANGED <<calls, lexers>>

Next == RunGetLatexInput \/ RunParse \/ RunGenerate \/ RunWriteGoCode

\* operands of a chain: a variable, a number, a function call
Primaries ==
  { <<<<"a">>, Variable(<<"a">>)>>,
    <<<<"2">>, NumberLiteral([m |-> 2, e |-> 0])>>,
    <<<<BSLASH,"s","i","n","{","x","}">>,
      FuncCall(S_sin, <<Variable(<<"x">>)>>)>> }

MaxChain == 4

\* a primary raised to each of the chains in rest
ChainBefore(rest) ==
  { <<pr[1] \o <<" ", "^", " ">> \o c[1], BinaryExpr(<<"^">>, pr[2], c[2])>> :
      pr \in Primaries, c \in rest }

RECURSIVE Chains(_)
\* the chains e1 ^ ... ^ ek, each with its right-nested tree
Chains(k) ==
  IF k = 1 THEN Primaries ELSE ChainBefore(Chains(k - 1))

ChainSet == UNION { Chains(k) : k \in 2..MaxChain }

ChainInputs == { c[1] : c \in ChainSet }

\* things a unary minus can be applied to
Operands ==
  { <<"a">>, <<"5">>, <<"2", ".", "5">>, <<"a", "!">>,
    <<"(", "a", " ", "+", " ", "b", ")">>, <<"(", "a", " ", "^", " ", "b", ")">>,
    <<BSLASH,"s","i","n","{","x","}">>, <<BSLASH,"s","q","r","t","{","x","}">>,
    <<BSLASH,"f","r","a","c","{","a","}","{","b","}">>,
    <<"-", "a">>, <<"-", "(", "a", " ", "*", " ", "b", ")">> }

UnaryInputs ==
  { <<"-">> \o blank \o o : blank \in {<<>>, <<" ">>}, o \in Operands }

\* the commands parseCommandExpression checks the arity of
FixedArity == {S_frac, S_sqrt, S_sin, S_cos, S_tan}

\* a well-formed group, an empty one, an unclosed one, a compound one
Groups ==
  { <<"{", "a", "}">>, <<"{", "}">>, <<"{", "a">>,
    <<"{", "a", " ", "+", " ", "b", "}">> }

MaxGroups == 3

\* a group in front of each of rest
GroupBefore(rest) == { g \o r : g \in Groups, r \in rest }

RECURSIVE GroupRuns(_)
\* n groups in a row
GroupRuns(n) ==
  IF n = 0 THEN {<<>>} ELSE GroupBefore(GroupRuns(n - 1))

\* a fixed-arity command, up to MaxGroups groups, and possibly "+ c" after them
CmdInputs ==
  { <<BSLASH>> \o name \o r \o trailer :
      name \in FixedArity,
      r \in UNION { GroupRuns(n) : n \in 0..MaxGroups },
      trailer \in {<<>>, <<" ", "+", " ", "c">>} }

CmdProviders ==
  { Provide(in, DefaultPackage, DefaultFunc) : in \in CmdInputs } \cup {ProviderFailure}

InitCmd == InitWith(CmdProviders)

SpecCmd == InitCmd /\ [][Next]_vars

\* a construct around an operand: the text before and after it
Contexts ==
  { <<<<"1", " ", "+", " ">>, <<>>>>,
    <<<<>>, <<" ", "+", " ", "1">>>>,
    <<<<>>, <<" ", "*", " ", "c">>>>,
    <<<<"-">>, <<>>>>,
    <<<<>>, <<"!">>>>,
    <<<<"(">>, <<")">>>>,
    <<<<BSLASH, "s", "i", "n", "{">>, <<"}">>>>,
    <<<<BSLASH, "s", "q", "r", "t", "{">>, <<"}">>>>,
    <<<<BSLASH, "f", "r", "a", "c", "{">>, <<"}", "{", "b", "}">>>>,
    <<<<>>, <<" ", "^", " ", "2">>>>,
    <<<<BSLASH, "s", "u", "m", "_", "{", "i", "=", "1", "}", "^", "{", "n", "}", " ">>, <<>>>>,
    <<<<BSLASH, "s", "u", "m", "_", "{", "j", "=", "1", "}", "^", "{", "m", "}", " ">>, <<>>>>,
    <<<<BSLASH, "i", "n", "t", " ">>, <<" ", "d", "x">>>>,
    <<<<BSLASH, "i", "n", "t", "_", "{", "0", "}", "^", "{", "1", "}", " ">>, <<" ", "d", "x">>>>,
    <<<<BSLASH, "l", "i", "m", "_", "{", "x", " ", BSLASH, "t", "o", " ", "0", "}", " ">>, <<>>>>,
    <<<<BSLASH, "b", "e", "g", "i", "n", "{", "c", "a", "s", "e", "s", "}", " ">>, <<" ", BSLASH, "e", "n", "d", "{", "c", "a", "s", "e", "s", "}">>>> }

\* the innermost operands
Leaves ==
  { <<"a">>,
    <<"x">>,
    <<"2">>,
    <<"g", "o">>,
    <<"i", " ", "*", " ", "x">>,
    <<"i", " ", "*", " ", "j">>,
    <<"a", "!">>,
    <<BSLASH, "f", "o", "o", "{", "x", "}">>,
    <<BSLASH, "p", "o", "w", "{", "a", "}", "{", "b", "}">>,
    <<BSLASH, "s", "u", "m", "_", "{", "i", "=", "1", "}", "^", "{", "n", "}", " ", "i">>,
    <<BSLASH, "i", "n", "t", " ", "x", " ", "d", "x">>,
    <<BSLASH, "l", "i", "m", "_", "{", "x", " ", BSLASH, "t", "o", " ", "0", "}", " ", "x">>,
    <<BSLASH, "f", "r", "a", "c", "{", "d", "}", "{", "d", "x", "}", " ", "x">>,
    <<"a", " ", "b">> }

MaxDepth == 2

\* each of inner inside one more context
Wrapped(inner) == { c[1] \o t \o c[2] : c \in Contexts, t \in inner }

RECURSIVE Composed(_)
\* a leaf inside at most n contexts
Composed(n) ==
  IF n = 0 THEN Leaves ELSE Leaves \cup Wrapped(Composed(n - 1))

ComposedInputs == Composed(MaxDepth)

\* whole inputs, also delivered cut off after any number of characters
Samples ==
  { <<BSLASH, "l", "i", "m", "_", "{", "x", " ", BSLASH, "t", "o", " ", "0", "}", " ", "x">>,
    <<BSLASH, "s", "u", "m", "_", "{", "i", "=", "1", "}", "^", "{", "n", "}", " ", "i">>,
    <<BSLASH, "i", "n", "t", "_", "{", "0", "}", "^", "{", "1", "}", " ", "x", " ", "d", "x">>,
    <<BSLASH, "f", "r", "a", "c", "{", "a", "}", "{", "b", "}">>,
    <<BSLASH, "b", "e", "g", "i", "n", "{", "c", "a", "s", "e", "s", "}", " ", "a", " ", "b", " ", BSLASH, "e", "n", "d", "{", "c", "a", "s", "e", "s", "}">>,
    <<"(", "a", " ", "+", " ", "b", ")", " ", "*", " ", "c">>,
    <<BSLASH, "s", "i", "n", "{", BSLASH, "f", "o", "o", "{", "x", "}", "}", " ", "+", " ", "1">> }

TruncatedInputs ==
  UNION { { SubSeq(t, 1, n) : n \in 1..Len(t) } : t \in Samples }

TokenAlphabet == {"a", "b", "+", "-", "^", "!"}

MaxTokens == 4

\* a token and a blank in front of each of rest
TokenBefore(rest) == { <<t, " ">> \o r : t \in TokenAlphabet, r \in rest }

RECURSIVE TokenRuns(_)
\* at most n tokens separated by blanks
TokenRuns(n) ==
  IF n = 1 THEN { <<t>> : t \in TokenAlphabet }
  ELSE { <<t>> : t \in TokenAlphabet } \cup TokenBefore(TokenRuns(n - 1))

TokenInputs == TokenRuns(MaxTokens)

OtherPackage == <<"c","a","l","c">>
OtherFunc == <<"E","v","a","l">>

ArithProviders ==
  { Provide(in, DefaultPackage, DefaultFunc) : in \in ArithInputs \cup GroupInputs \cup ChainInputs \cup UnaryInputs }
    \cup {ProviderFailure}

InitArith == InitWith(ArithProviders)

S_lim_ == <<BSLASH, "l", "i", "m", "_", "{">>

\* the limit of body as v goes to value, the arrow written as arrow
LimitText(v, arrow, value, body) ==
  S_lim_ \o v \o <<" ">> \o arrow \o value \o <<"}", " ">> \o body

LimitVars == { <<"x">>, <<"n">>, <<"h">> }

\* values a limit variable approaches
LimitValues ==
  { <<"0">>, <<"a">>, <<"-", "1">>, <<"-", "a">>, <<"(", "a", ")">>,
    <<"(", "a", " ", "+", " ", "b", ")">>, <<"a", " ", "+", " ", "1">>,
    <<"2", " ", "*", " ", "a">> }

LimitBodies ==
  { <<"x">>, <<"x", " ", "+", " ", "1">>, <<BSLASH, "s", "i", "n", "{", "x", "}">>,
    <<"x", " ", "^", " ", "2">> }

\* the arrow of a limit, and what stands in its place when it is left out
S_arrow == <<BSLASH, "t", "o", " ">>

LimitInputs ==
  { LimitText(v, S_arrow, value, body) :
      v \in LimitVars, value \in LimitValues, body \in LimitBodies }

\* what a subscript has between variable and value when no "to" is written
NoArrows == { <<>>, <<"-", ">", " ">>, <<"=", " ">> }

NoArrowValues == { <<"0">>, <<"a">> }

NoArrowInputs ==
  { LimitText(v, arrow, value, body) :
      v \in LimitVars, arrow \in NoArrows, value \in NoArrowValues,
      body \in LimitBodies }

\* the derivative of body with respect to v, written with d or with \partial
DerivativeText(isPartial, v, body) ==
  IF isPartial
  THEN <<BSLASH, "f", "r", "a", "c", "{">> \o S_partial \o <<"}", "{">>
         \o S_partial_ \o v \o <<"}", " ">> \o body
  ELSE <<BSLASH, "f", "r", "a", "c", "{", "d", "}", "{", "d">> \o v \o <<"}", " ">> \o body

DerivativeVars == { <<"x">>, <<"t">>, <<"y">> }

\* bodies that start with an identifier, a number, a command, a parenthesis
DerivativeBodies ==
  { <<"x">>, <<"2">>, <<BSLASH, "s", "i", "n", "{", "x", "}">>,
    <<"(", "x", " ", "+", " ", "1", ")">>, <<"x", " ", "^", " ", "2">>,
    <<"x", " ", "*", " ", "t">> }

DerivativeInputs ==
  { DerivativeText(isPartial, v, body) :
      isPartial \in BOOLEAN, v \in DerivativeVars, body \in DerivativeBodies }

\* the integral of integrand: bounds is <<>> or <<lower, upper>>, v is <<>>
\* when no differential is written
IntegralText(bounds, integrand, v) ==
  <<BSLASH, "i", "n", "t">>
    \o (IF bounds = <<>> THEN <<>>
        ELSE <<"_", "{">> \o bounds[1] \o <<"}", "^", "{">> \o bounds[2] \o <<"}">>)
    \o <<" ">> \o integrand
    \o (IF v = <<>> THEN <<>> ELSE <<" ", "d">> \o v)

IntegralBounds == { <<>>, <<<<"0">>, <<"1">>>>, <<<<"a">>, <<"b", " ", "+", " ", "1">>>> }

Integrands ==
  { <<"x">>, <<"x", " ", "^", " ", "2">>, <<"2", " ", "*", " ", "t">>,
    <<"x", " ", "+", " ", "1">>, <<"(", "x", " ", "+", " ", "1", ")">>,
    <<BSLASH, "s", "i", "n", "{", "x", "}">>,
    <<"x", " ", "*", " ", BSLASH, "c", "o", "s", "{", "x", "}">>,
    <<BSLASH, "f", "r", "a", "c", "{", "1", "}", "{", "x", "}">> }

IntegralVars == { <<>>, <<"x">>, <<"t">> }

IntegralInputs ==
  { IntegralText(bounds, integrand, v) :
      bounds \in IntegralBounds, integrand \in Integrands, v \in IntegralVars }

\* a row of a cases block: <<value, condition>>, the condition <<>> when
\* the row has no & in it
Rows ==
  { <<<<"a">>, <<>>>>,
    <<<<"x", " ", "+", " ", "1">>, <<>>>>,
    <<<<"x">>, <<"c">>>>,
    <<<<"0">>, <<"x", " ", "-", " ", "1">>>>,
    <<<<"2", " ", "*", " ", "x">>, <<"c">>>> }

MaxRows == 2

\* a row in front of each of rest
RowBefore(rest) == { <<r>> \o rs : r \in Rows, rs \in rest }

RECURSIVE RowRuns(_)
\* the blocks of at least one and at most n rows
RowRuns(n) ==
  IF n = 1 THEN { <<r>> : r \in Rows }
  ELSE { <<r>> : r \in Rows } \cup RowBefore(RowRuns(n - 1))

RowText(r) == IF r[2] = <<>> THEN r[1] ELSE r[1] \o <<" ", "&", " ">> \o r[2]

RECURSIVE RowsText(_)
\* the rows, a double backslash between two
RowsText(rs) ==
  IF Len(rs) = 1 THEN RowText(rs[1])
  ELSE RowText(rs[1]) \o <<" ", BSLASH, BSLASH, " ">> \o RowsText(Tail(rs))

CasesText(rs) ==
  <<BSLASH>> \o S_begin \o <<"{", "c", "a", "s", "e", "s", "}", " ">> \o RowsText(rs)
    \o <<" ", BSLASH>> \o S_end \o <<"{", "c", "a", "s", "e", "s", "}">>

CasesGroup == <<"{">> \o S_cases \o <<"}">>

\* a cases block with no row in it, alone and as an operand
EmptyCasesInputs ==
  { before \o <<BSLASH>> \o S_begin \o CasesGroup \o blank \o <<BSLASH>> \o S_end \o CasesGroup :
      before \in {<<>>, <<"1", " ", "+", " ">>, <<"-">>},
      blank \in {<<>>, <<" ">>} }

PiecewiseInputs == { CasesText(rs) : rs \in RowRuns(MaxRows) } \cup EmptyCasesInputs

\* the families of inputs, each a set of its own
InputFamilies ==
  { ArithInputs, GroupInputs, ChainInputs, UnaryInputs, CmdInputs,
    ComposedInputs, TruncatedInputs, TokenInputs, LimitInputs, NoArrowInputs,
    DerivativeInputs, IntegralInputs, PiecewiseInputs }

\* a provider with another configuration, and the one that fails
OtherProviders ==
  { Provide(in, OtherPackage, OtherFunc) : in \in Samples } \cup {ProviderFailure}

Init ==
  \/ \E inputs \in InputFamilies :
       InitWith({ Provide(in, DefaultPackage, DefaultFunc) : in \in inputs })
  \/ InitWith(OtherProviders)

Spec == Init /\ [][Next]_vars

SpecArith == InitArith /\ [][Next]_vars

(***************************************************************************)
(* Generate called on an AST its caller built by hand, as the generator's  *)
(* own tests do: the caller holds the AST where Run holds Parse's result.  *)
(***************************************************************************)
Num(n) == NumberLiteral([m |-> n, e |-> 0])

\* the operands of a hand-built AST
AstLeaves ==
  { Variable(<<"x">>), Variable(<<"a">>), Variable(<<"g","o">>),
    Variable(<<"n","i","l">>), Num(2) }

\* one node of each AST variant around the operand t
AstAround(t) ==
  { BinaryExpr(<<"+">>, t, Variable(<<"b">>)),
    BinaryExpr(<<"*">>, Variable(<<"z">>), t),
    BinaryExpr(<<"^">>, t, Num(2)),
    FuncCall(S_sqrt, <<t>>),
    FuncCall(S_frac, <<t, Variable(<<"b">>)>>),
    FuncCall(<<"f","o","o">>, <<t>>),
    SumExpr(FALSE, <<"i">>, Num(1), Variable(<<"n">>), t),
    IntegralExpr(TRUE, <<"x">>, Num(0), Num(1), t),
    IntegralExpr(FALSE, <<"x">>, Nil, Nil, t),
    DerivativeExpr(FALSE, <<"x">>, 1, t),
    DerivativeExpr(TRUE, <<"a">>, 2, t),
    DerivativeExpr(FALSE, <<"x">>, 3, t),
    LimitExpr(<<"x">>, Num(0), t),
    FactorialExpr(t),
    PiecewiseExpr(<<PiecewiseCase(t, Variable(<<"c">>))>>),
    PiecewiseExpr(<<PiecewiseCase(t, Nil)>>),
    PiecewiseExpr(<<PiecewiseCase(t, Variable(<<"c">>)), PiecewiseCase(Num(0), Nil)>>),
    PiecewiseExpr(<<PiecewiseCase(t, Nil), PiecewiseCase(Num(0), Nil)>>),
    PiecewiseExpr(<<PiecewiseCase(Num(1), Nil), PiecewiseCase(t, Variable(<<"c">>))>>),
    PiecewiseExpr(<<PiecewiseCase(t, Variable(<<"c">>)),
                    PiecewiseCase(Num(0), Variable(<<"b">>))>>) }

MaxAstDepth == 2

\* a node around each of inner
AstWrapped(inner) == UNION { AstAround(t) : t \in inner }

RECURSIVE AstUpTo(_)
\* the hand-built ASTs of at most n nodes above a leaf
AstUpTo(n) ==
  IF n = 0 THEN AstLeaves ELSE AstLeaves \cup AstWrapped(AstUpTo(n - 1))

AstInputs == AstUpTo(MaxAstDepth)

\* bounds of a sum: integer and non-integer literals, variables, quotients
SumBounds ==
  { Num(0), Num(1), Num(3), Num(0 - 1),
    NumberLiteral([m |-> 15, e |-> 0 - 1]), NumberLiteral([m |-> 25, e |-> 0 - 1]),
    Variable(<<"b">>), Variable(<<"c">>),
    BinaryExpr(<<"/">>, Variable(<<"c">>), Variable(<<"a">>)),
    BinaryExpr(<<"/">>, Variable(<<"x">>), Variable(<<"b">>)) }

SumBodies ==
  { Variable(<<"i">>), Num(2), BinaryExpr(<<"+">>, Variable(<<"i">>), Variable(<<"a">>)) }

\* a sum or a product as the root
SumInputs ==
  { SumExpr(isProduct, <<"i">>, lower, upper, body) :
      isProduct \in BOOLEAN, lower \in SumBounds, upper \in SumBounds,
      body \in SumBodies }

\* a quotient of two literals, as an operator and as a fraction
QuotientInputs ==
  { BinaryExpr(<<"/">>, Num(1), Num(2)),
    FuncCall(S_frac, <<Num(1), Num(2)>>),
    BinaryExpr(<<"/">>, Num(3), Num(2)),
    BinaryExpr(<<"/">>, NumberLiteral([m |-> 15, e |-> 0 - 1]), Num(2)),
    BinaryExpr(<<"+">>, Variable(<<"x">>), BinaryExpr(<<"/">>, Num(1), Num(2))),
    BinaryExpr(<<"/">>, Num(4), Num(2)),
    BinaryExpr(<<"/">>, Variable(<<"x">>), Num(2)) }

\* the caller is about to call Generate(root, "main", "calculate")
InitGen ==
  /\ provider = Provide(<<>>, DefaultPackage, DefaultFunc)
  /\ pc = "generate"
  /\ latexInput = <<>>
  /\ config = [PackageName |-> DefaultPackage, FuncName |-> DefaultFunc]
  /\ parsed \in { [ok |-> TRUE, expr |-> root, errors |-> <<>>, hang |-> FALSE] :
                    root \in AstInputs \cup SumInputs \cup QuotientInputs }
  /\ goCode = None
  /\ output = None
  /\ runErr = ""
  /\ calls = <<>>
  /\ lexers = <<>>

NextGen == RunGenerate \/ RunWriteGoCode

SpecGen == InitGen /\ [][NextGen]_vars

(***************************************************************************)
(* Several requests on one Parser and one Generator value, as              *)
(* ConvertLatexToGo makes them.  A call's lexer and stateful parser are    *)
(* objects the call allocates; the parser pulls its tokens one NextToken   *)
(* at a time, and between two pulls any other call may run.  Generate      *)
(* works on locals only and is one step.                                   *)
(***************************************************************************)
Callers == {1, 2}

MaxRequests == 2

ConcInputs ==
  { <<"a", " ", "+", " ", "b">>,
    <<"a", " ", "*", " ", "b">>,
    <<"-", "x">>,
    <<BSLASH>> \o S_sqrt \o <<"{", "y", "}">>,
    <<"(", "a">> }

Idle ==
  [stage |-> "idle", n |-> 0, input |-> <<>>, l |-> 0, toks |-> <<>>,
   parsed |-> None, goCode |-> None, overlapped |-> FALSE]

\* were every call to use the one lexer kept in the Parser value
sharedLexerRef(c) == 1

\* l := NewLexer(latexString): the lexer this call allocates; the lexers of
\* calls in flight are different objects
newLexerRef(c) == c

\* Parse, given the stateful parser of the call
ParseFrom(p) ==
  ValueOf([r \in {ParseExpression(p)} |->
    [ok |-> ~r.err /\ ~r.hang /\ Len(r.p.errors) = 0,
     expr |-> IF ~r.err /\ ~r.hang /\ Len(r.p.errors) = 0 THEN r.expr ELSE Nil,
     errors |-> r.p.errors,
     hang |-> r.hang]])

runVars == <<provider, pc, latexInput, config, parsed, goCode, output, runErr>>

InitConc ==
  /\ provider = ProviderFailure
  /\ pc = "done"
  /\ latexInput = <<>>
  /\ config = [PackageName |-> DefaultPackage, FuncName |-> DefaultFunc]
  /\ parsed = None
  /\ goCode = None
  /\ output = None
  /\ runErr = ""
  /\ calls = [c \in Callers |-> Idle]
  /\ lexers = [c \in Callers |-> None]

\* the last token the call's parser pulled is EOF
PulledEOF(c) ==
  IF calls[c].toks = <<>> THEN FALSE
  ELSE calls[c].toks[Len(calls[c].toks)].Type = "EOF"

\* Parse is entered: NewLexer and newStatefulParser
ParseBegin(c) ==
  /\ calls[c].stage \in {"idle", "done"}
  /\ calls[c].n < MaxRequests
  /\ \E input \in ConcInputs :
        /\ calls' = [calls EXCEPT ![c] =
                       [stage |-> "parse", n |-> calls[c].n + 1, input |-> input,
                        l |-> newLexerRef(c), toks |-> <<>>, parsed |-> None,
                        goCode |-> None, overlapped |-> FALSE]]
        /\ lexers' = [lexers EXCEPT ![newLexerRef(c)] =
                        [input |-> input, position |-> 0]]
  /\ UNCHANGED runVars

\* p.nextToken(): the call's parser pulls one token from the lexer it holds
ParseNextToken(c) ==
  /\ calls[c].stage = "parse"
  /\ lexers[calls[c].l] # None
  /\ ~PulledEOF(c)
  /\ LET l == lexers[calls[c].l]
         r == NextToken(l.input, l.position)
         t == [Type |-> r.tok.Type, Literal |-> r.tok.Literal,
               Pos |-> r.tok.Pos, End |-> r.position]
     IN  /\ calls' = [calls EXCEPT
                        ![c].toks = Append(@, t),
                        ![c].overlapped =
                           @ \/ \E d \in Callers \ {c} :
                                   /\ calls[d].stage = "parse"
                                   /\ calls[d].toks # <<>>]
         /\ lexers' = [lexers EXCEPT ![calls[c].l].position = r.position]
  /\ UNCHANGED runVars

\* Parse returns what its parser made of the tokens it pulled
ParseReturn(c) ==
  /\ calls[c].stage = "parse"
  /\ PulledEOF(c)
  /\ LET r == ParseFrom([input |-> calls[c].input, toks |-> calls[c].toks,
                         i |-> 1, errors |-> <<>>])
     IN  calls' = [calls EXCEPT ![c].parsed = r,
                                ![c].stage = IF r.ok THEN "generate" ELSE "done"]
  /\ UNCHANGED lexers
  /\ UNCHANGED runVars

\* Generate on the AST Parse returned
CallGenerate(c) ==
  /\ calls[c].stage = "generate"
  /\ calls' = [calls EXCEPT
                 ![c].goCode = Generate(calls[c].parsed.expr, DefaultPackage,
                                        DefaultFunc),
                 ![c].stage = "done"]
  /\ UNCHANGED lexers
  /\ UNCHANGED runVars

NextConc ==
  \E c \in Callers :
     ParseBegin(c) \/ ParseNextToken(c) \/ ParseReturn(c) \/ CallGenerate(c)

SpecConc == InitConc /\ [][NextConc]_vars

(***************************************************************************)
(* Reading an AST back: binding strength of a node and its token order.    *)
(***************************************************************************)
\* the node parsePrefixExpression builds for a unary minus
IsNegation(e) ==
  e.kind = "BinaryExpr" /\ e.Op = <<"*">> /\ e.Left = NumberLiteral(MinusOne)

\* binding strength of the operator at the root of e
Strength(e) ==
  CASE e.kind = "BinaryExpr" ->
         IF IsNegation(e) THEN PREFIX
         ELSE IF e.Op \in {<<"+">>, <<"-">>} THEN SUM
         ELSE IF e.Op \in {<<"*">>, <<"/">>} THEN PRODUCT
         ELSE EXPONENT
    [] e.kind = "FactorialExpr" -> POSTFIX
    [] OTHER -> CALL

RECURSIVE WellNested(_)
\* no operator has a weaker operator as an operand (equal strength only on
\* the side its associativity allows)
WellNested(e) ==
  CASE e.kind = "BinaryExpr" ->
         IF IsNegation(e)
         THEN Strength(e.Right) >= PREFIX /\ WellNested(e.Right)
         ELSE IF e.Op = <<"^">>
         THEN /\ Strength(e.Left) > EXPONENT
              /\ Strength(e.Right) >= EXPONENT
              /\ WellNested(e.Left) /\ WellNested(e.Right)
         ELSE /\ Strength(e.Left) >= Strength(e)
              /\ Strength(e.Right) > Strength(e)
              /\ WellNested(e.Left) /\ WellNested(e.Right)
    [] e.kind = "FactorialExpr" ->
         Strength(e.Value) >= POSTFIX /\ WellNested(e.Value)
    [] OTHER -> TRUE

RECURSIVE InOrder(_)
\* the operand and operator tokens of e from left to right
InOrder(e) ==
  CASE e.kind = "BinaryExpr" ->
         IF IsNegation(e) THEN <<"-">> \o InOrder(e.Right)
         ELSE InOrder(e.Left) \o e.Op \o InOrder(e.Right)
    [] e.kind = "FactorialExpr" -> InOrder(e.Value) \o <<"!">>
    [] e.kind = "Variable" -> e.Name
    [] OTHER -> <<"?">>

\* input without its blanks
Unspaced(input) == SelectSeq(input, LAMBDA c : c # " ")

\* Run has called Parse and Parse has returned an AST
Accepted == pc \in {"generate", "write", "done", "panicked"} /\ parsed # None /\ parsed.ok

V(c) == Variable(<<c>>)

Bin(op, l, r) == BinaryExpr(<<op>>, l, r)

Neg(e) == BinaryExpr(<<"*">>, NumberLiteral(MinusOne), e)

(***************************************************************************)
(* C7.  Binding strength is ordered sum < product < exponent < unary      *)
(* prefix < postfix: in every accepted parenthesis-free input the AST     *)
(* keeps the tokens in input order and never puts a weaker operator under *)
(* a stronger one, whichever comes first; and a + b * c, a / b + c,       *)
(* a * b ^ c, a ^ b * c and -a ^ b parse to the trees the ordering gives. *)
(***************************************************************************)
PrecedenceExamples ==
  { <<<<"a"," ","+"," ","b"," ","*"," ","c">>, Bin("+", V("a"), Bin("*", V("b"), V("c")))>>,
    <<<<"a"," ","/"," ","b"," ","+"," ","c">>, Bin("+", Bin("/", V("a"), V("b")), V("c"))>>,
    <<<<"a"," ","*"," ","b"," ","^"," ","c">>, Bin("*", V("a"), Bin("^", V("b"), V("c")))>>,
    <<<<"a"," ","^"," ","b"," ","*"," ","c">>, Bin("*", Bin("^", V("a"), V("b")), V("c"))>>,
    <<<<"-","a"," ","^"," ","b">>, Bin("^", Neg(V("a")), V("b"))>> }

C7_PrecedenceOrdering ==
  /\ SUM < PRODUCT /\ PRODUCT < EXPONENT /\ EXPONENT < PREFIX /\ PREFIX < POSTFIX
  /\ (Accepted /\ latexInput \in ArithInputs) =>
        /\ WellNested(parsed.expr)
        /\ InOrder(parsed.expr) = Unspaced(latexInput)
  /\ \A ex \in PrecedenceExamples :
        (pc # "start" /\ pc # "parse" /\ latexInput = ex[1]) =>
           parsed.ok /\ parsed.expr = ex[2]

\* Run has called Parse and Parse has returned, with or without an AST
Returned == pc \in {"generate", "write", "done", "panicked"} /\ parsed # None

RECURSIVE NoAbsorb(_)
\* no ^ has a sum, difference, product or quotient as its right operand
NoAbsorb(e) ==
  CASE e.kind = "BinaryExpr" ->
         /\ e.Op = <<"^">> => Strength(e.Right) >= EXPONENT
         /\ NoAbsorb(e.Left) /\ NoAbsorb(e.Right)
    [] e.kind = "FactorialExpr" -> NoAbsorb(e.Value)
    [] OTHER -> TRUE

GroupedPower == <<"(", "a", " ", "^", " ", "b", ")", " ", "^", " ", "c">>

(***************************************************************************)
(* C8.  ^ is right-associative: every chain e1 ^ e2 ^ ... ^ ek of         *)
(* primaries without parentheses parses to ^(e1, ^(e2, ... ^(ek-1, ek))), *)
(* (a ^ b) ^ c parses to ^(^(a, b), c), and in a parenthesis-free input   *)
(* the right operand of ^ is never a sum, difference, product or quotient.*)
(***************************************************************************)
C8_RightAssociative ==
  /\ \A c \in ChainSet :
        (Returned /\ latexInput = c[1]) => parsed.ok /\ parsed.expr = c[2]
  /\ (Returned /\ latexInput = GroupedPower) =>
        parsed.ok /\ parsed.expr = Bin("^", Bin("^", V("a"), V("b")), V("c"))
  /\ (Accepted /\ latexInput \in ArithInputs \cup ChainInputs) => NoAbsorb(parsed.expr)

\* "a ^ 2 ^ a ^ 2" has been parsed to ^(a, ^(2, ^(a, 2)))
C8_Witness ==
  /\ Accepted
  /\ latexInput = <<"a"," ","^"," ","2"," ","^"," ","a"," ","^"," ","2">>
  /\ parsed.expr.Right.Right.kind = "BinaryExpr"
  /\ parsed.expr.Right.Right.Left = V("a")

\* the text a leading unary minus is applied to
AfterMinus(input) ==
  IF Len(input) >= 2 /\ input[2] = " "
  THEN SubSeq(input, 3, Len(input)) ELSE SubSeq(input, 2, Len(input))

(***************************************************************************)
(* C9.  Unary minus has no node of its own: for every operand e, -e       *)
(* parses to BinaryExpr("*", NumberLiteral(-1), parse(e)); -a is          *)
(* multiply(-1, a), -5 is multiply(-1, 5) and - (a + b) is                *)
(* multiply(-1, +(a, b)).                                                 *)
(***************************************************************************)
C9_UnaryMinusDesugars ==
  /\ (Returned /\ latexInput \in UnaryInputs) =>
        LET operand == Parse(AfterMinus(latexInput))
        IN  /\ operand.ok
            /\ parsed.ok
            /\ parsed.expr =
                 BinaryExpr(<<"*">>, NumberLiteral([m |-> 0 - 1, e |-> 0]), operand.expr)
  /\ (Returned /\ latexInput = <<"-", "a">>) => parsed.expr = Neg(V("a"))
  /\ (Returned /\ latexInput = <<"-", "5">>) =>
        parsed.expr = Neg(NumberLiteral([m |-> 5, e |-> 0]))
  /\ (Returned /\ latexInput = <<"-", " ", "(", "a", " ", "+", " ", "b", ")">>) =>
        parsed.expr = Neg(Bin("+", V("a"), V("b")))

\* "- (a + b)" has been parsed to *(-1, +(a, b))
C9_Witness ==
  /\ Accepted
  /\ latexInput = <<"-", " ", "(", "a", " ", "+", " ", "b", ")">>
  /\ parsed.expr.Op = <<"*">>
  /\ parsed.expr.Right = Bin("+", V("a"), V("b"))

(***************************************************************************)
(* Reading a command input independently of the parser: its name and the  *)
(* groups that directly follow it.                                         *)
(***************************************************************************)
RECURSIVE NameEnd(_, _)
\* index of the last letter of the command name that starts at index 2
NameEnd(input, k) ==
  IF k + 1 <= Len(input) /\ isLetter(input[k + 1]) THEN NameEnd(input, k + 1) ELSE k

CommandName(input) == SubSeq(input, 2, NameEnd(input, 1))

RECURSIVE GroupEnd(_, _)
\* from inside a group: index of its closing brace, 0 when the input ends
\* first, -1 when another group opens first
GroupEnd(input, k) ==
  IF k > Len(input) THEN 0
  ELSE IF input[k] = "{" THEN 0 - 1
  ELSE IF input[k] = "}" THEN k
  ELSE GroupEnd(input, k + 1)

RECURSIVE ScanGroups(_, _, _)
\* count of well-formed non-empty groups from index k on, and what stopped
\* the count: "none", an "empty" group, one "unclosed" at the end of the
\* input, or one "broken" by the next opening brace
ScanGroups(input, k, count) ==
  IF k > Len(input) \/ input[k] # "{" THEN [count |-> count, bad |-> "none"]
  ELSE LET j == GroupEnd(input, k + 1)
       IN  IF j = 0 THEN [count |-> count, bad |-> "unclosed"]
           ELSE IF j < 0 THEN [count |-> count, bad |-> "broken"]
           ELSE IF j = k + 1 THEN [count |-> count, bad |-> "empty"]
           ELSE ScanGroups(input, j + 1, count + 1)

GroupsAfter(input) == ScanGroups(input, NameEnd(input, 1) + 1, 0)

\* the arity the specification gives a command
Arity(name) == IF name = S_frac THEN 2 ELSE 1

\* the first diagnostic has this format and these arguments
FirstError(format, args) ==
  /\ Len(parsed.errors) >= 1
  /\ parsed.errors[1].format = format
  /\ parsed.errors[1].args = args

ArityFormat == "\\%s requires %d argument(s), got %d"

\* the diagnostic "\name requires <arity> argument(s), got <count>"
ArityDiagnostic(name, count) ==
  ~parsed.ok /\ FirstError(ArityFormat, <<name, Arity(name), count>>)

Generated == pc \in {"write", "done", "panicked"} /\ goCode # None

\* the names the specification lowers to a library call
SpecSupported ==
  {<<"S","q","r","t">>, <<"S","i","n">>, <<"C","o","s">>, <<"T","a","n">>}

\* the direct sub-expressions of e
Children(e) ==
  CASE e.kind = "BinaryExpr" -> {e.Left, e.Right}
    [] e.kind = "FuncCall" -> { e.Args[k] : k \in 1..Len(e.Args) }
    [] e.kind = "SumExpr" -> {e.Lower, e.Upper, e.Body}
    [] e.kind = "IntegralExpr" -> {e.Lower, e.Upper, e.Body}
    [] e.kind = "DerivativeExpr" -> {e.Body}
    [] e.kind = "LimitExpr" -> {e.Approaches, e.Body}
    [] e.kind = "FactorialExpr" -> {e.Value}
    [] e.kind = "PiecewiseExpr" ->
         { e.Cases[k].Value : k \in 1..Len(e.Cases) }
           \cup { e.Cases[k].Condition : k \in 1..Len(e.Cases) }
    [] OTHER -> {}

RECURSIVE UnsupportedNames(_)
\* the names of the FuncCalls in e that are neither frac nor supported
\* (pow, which the generator lowers to math.Pow on purpose, is not counted)
UnsupportedNames(e) ==
  (IF /\ e.kind = "FuncCall"
      /\ e.FuncName # S_frac
      /\ Title(e.FuncName) \notin SpecSupported \cup {<<"P","o","w">>}
   THEN {e.FuncName} ELSE {})
    \cup UNION { UnsupportedNames(c) : c \in Children(e) }

RECURSIVE FreeVars(_)
\* the variables of e that no enclosing binder of e binds
FreeVars(e) ==
  CASE e.kind = "Variable" -> {e.Name}
    [] e.kind = "SumExpr" ->
         FreeVars(e.Lower) \cup FreeVars(e.Upper) \cup (FreeVars(e.Body) \ {e.Var})
    [] e.kind = "IntegralExpr" ->
         FreeVars(e.Lower) \cup FreeVars(e.Upper) \cup (FreeVars(e.Body) \ {e.Var})
    [] e.kind = "DerivativeExpr" -> FreeVars(e.Body) \ {e.Var}
    [] e.kind = "LimitExpr" -> FreeVars(e.Approaches) \cup (FreeVars(e.Body) \ {e.Var})
    [] OTHER -> UNION { FreeVars(c) : c \in Children(e) }

(***************************************************************************)
(* C1.  For every input Parse accepts, Generate (with a valid package and  *)
(* function name) returns no error and syntactically valid Go, also when   *)
(* a sum or product, an integral, a limit, a factorial or a cases block is *)
(* an operand of a larger expression.  (Inputs with a function the         *)
(* specification rejects are left out: Generate is to fail on them; so are *)
(* inputs with a variable named like a Go keyword.)                        *)
(***************************************************************************)
C1_AcceptedInputGeneratesValidGo ==
  (/\ Generated
   /\ UnsupportedNames(parsed.expr) = {}
   /\ collect(parsed.expr, <<>>) \cap { k \o <<"_">> : k \in goKeywords } = {}) =>
     /\ ~goCode.panic
     /\ goCode.err = NoError
     /\ goCode.formatted

(***************************************************************************)
(* The Go reading of an emitted arithmetic expression.                     *)
(***************************************************************************)
RECURSIVE IsArith(_)
\* BinaryExpr nodes over + - * / with variables and numbers as leaves
IsArith(e) ==
  CASE e.kind = "BinaryExpr" ->
         e.Op \in {<<"+">>, <<"-">>, <<"*">>, <<"/">>} /\ IsArith(e.Left) /\ IsArith(e.Right)
    [] e.kind \in {"Variable", "NumberLiteral"} -> TRUE
    [] OTHER -> FALSE

RECURSIVE Emitted(_)
\* the tokens of generateExpr(e).code for such a tree: operands and operators
Emitted(e) ==
  IF e.kind = "BinaryExpr"
  THEN Emitted(e.Left) \o <<[op |-> e.Op, leaf |-> Nil]>> \o Emitted(e.Right)
  ELSE <<[op |-> <<>>, leaf |-> e]>>

\* the text of the tokens, one blank between two
EmittedText(toks) ==
  Join([k \in 1..Len(toks) |->
          IF toks[k].op # <<>> THEN Str(toks[k].op)
          ELSE generateExpr(toks[k].leaf).code], " ")

\* index of the last operator of toks that is in ops, 0 if there is none
LastOp(toks, ops) ==
  LET at == { k \in 1..Len(toks) : toks[k].op \in ops }
  IN  IF at = {} THEN 0 ELSE CHOOSE k \in at : \A j \in at : j <= k

RECURSIVE GoGroup(_)
\* the tree Go builds from the tokens: * and / bind tighter than + and -,
\* operators of one level group from the left, a literal -1 is an operand
GoGroup(toks) ==
  IF Len(toks) = 1 THEN toks[1].leaf
  ELSE LET s == LastOp(toks, {<<"+">>, <<"-">>})
           k == IF s > 0 THEN s ELSE LastOp(toks, {<<"*">>, <<"/">>})
       IN  BinaryExpr(toks[k].op, GoGroup(SubSeq(toks, 1, k - 1)),
                      GoGroup(SubSeq(toks, k + 1, Len(toks))))

\* the token reading is the emitted text
EmittedIsGenerated ==
  (Accepted /\ IsArith(parsed.expr)) =>
     EmittedText(Emitted(parsed.expr)) = generateExpr(parsed.expr).code

\* a value for each variable name
VarValue(name) ==
  CASE name = <<"a">> -> 2 [] name = <<"b">> -> 3 [] name = <<"c">> -> 5
    [] name = <<"x">> -> 7 [] OTHER -> 11

\* the fraction n/d; d = 0 when a division by zero occurred
Frac(n, d) == [n |-> n, d |-> d]

RECURSIVE Value(_)
\* the exact value of an arithmetic tree under VarValue
Value(e) ==
  CASE e.kind = "Variable" -> Frac(VarValue(e.Name), 1)
    [] e.kind = "NumberLiteral" ->
         IF e.Value.e >= 0 THEN Frac(e.Value.m * Pow10(e.Value.e), 1)
         ELSE Frac(e.Value.m, Pow10(0 - e.Value.e))
    [] OTHER ->
         LET l == Value(e.Left)
             r == Value(e.Right)
         IN  IF l.d = 0 \/ r.d = 0 THEN Frac(0, 0)
             ELSE IF e.Op = <<"+">> THEN Frac(l.n * r.d + r.n * l.d, l.d * r.d)
             ELSE IF e.Op = <<"-">> THEN Frac(l.n * r.d - r.n * l.d, l.d * r.d)
             ELSE IF e.Op = <<"*">> THEN Frac(l.n * r.n, l.d * r.d)
             ELSE IF r.n = 0 THEN Frac(0, 0)
             ELSE IF r.n < 0 THEN Frac(0 - l.n * r.d, 0 - l.d * r.n)
             ELSE Frac(l.n * r.d, l.d * r.n)

SameValue(v, w) == IF v.d = 0 \/ w.d = 0 THEN v.d = w.d ELSE v.n * w.d = w.n * v.d

(***************************************************************************)
(* C2.  Lowering preserves the operand grouping: for every AST of          *)
(* BinaryExpr nodes over + - * / the emitted return expression, read with  *)
(* Go's precedence and associativity, computes the value the AST denotes   *)
(* (which it does if it groups its operands as the AST does).              *)
(***************************************************************************)
C2_GroupingPreserved ==
  (Generated /\ goCode.err = NoError /\ IsArith(parsed.expr)) =>
     SameValue(Value(GoGroup(Emitted(parsed.expr))), Value(parsed.expr))

(***************************************************************************)
(* C3.  Parse terminates on every finite input: no loop of the parser      *)
(* keeps running with EOF as the current token, so Run never stays inside  *)
(* Parse.                                                                  *)
(***************************************************************************)
C3_ParseTerminates ==
  /\ pc # "hung"
  /\ parsed # None => ~parsed.hang

\* the characters of inputs made of one-letter names, operators and parentheses
PlainChars == LowerLetters \cup {"+", "-", "*", "/", "^", "!", "(", ")", " "}

\* the input's tokens that an AST can hold: all but blanks and parentheses
HeldTokens(input) == SelectSeq(input, LAMBDA c : c \notin {" ", "(", ")"})

(***************************************************************************)
(* C4.  Parse fails if and only if a diagnostic was recorded or tokens     *)
(* remain after the top-level expression: a failed parse has diagnostics,  *)
(* a successful one has none, and on success every token of the input is   *)
(* in the returned AST, in input order (here for inputs of one-letter      *)
(* names, operators and parentheses).                                      *)
(***************************************************************************)
C4_NoTokenLost ==
  /\ (Returned /\ ~parsed.ok) => Len(parsed.errors) > 0
  /\ Accepted => Len(parsed.errors) = 0
  /\ (Accepted /\ \A k \in 1..Len(latexInput) : latexInput[k] \in PlainChars) =>
        InOrder(parsed.expr) = HeldTokens(latexInput)

(***************************************************************************)
(* C5.  A variable bound by a SumExpr, IntegralExpr, DerivativeExpr or     *)
(* LimitExpr whose occurrences all lie inside that construct's body is not *)
(* a parameter of the generated function, at any nesting depth: every      *)
(* parameter is a variable free in the AST.                                *)
(***************************************************************************)
C5_BoundVariablesExcluded ==
  (Generated /\ ~goCode.panic) =>
     LET names == paramNames(parsed.expr)
     IN  \A k \in 1..Len(names) :
            names[k] \in { sanitizeVariableName(v) : v \in FreeVars(parsed.expr) }

(***************************************************************************)
(* C6.  Generate never returns success for an AST that contains, at any    *)
(* position, a FuncCall whose name is not frac and does not title-case to  *)
(* Sqrt, Sin, Cos or Tan (it is to fail, naming the function).             *)
(***************************************************************************)
C6_UnsupportedFunctionFails ==
  (Generated /\ ~goCode.panic /\ UnsupportedNames(parsed.expr) # {}) =>
     goCode.err # NoError

(***************************************************************************)
(* Reading the emitted expression: whether it refers to the math package.  *)
(***************************************************************************)
RECURSIVE MathRefs(_)
\* generateExpr(e).code has a math.* selector outside a comment
MathRefs(e) ==
  CASE e.kind = "BinaryExpr" -> e.Op = <<"^">> \/ MathRefs(e.Left) \/ MathRefs(e.Right)
    [] e.kind = "FuncCall" ->
         IF e.FuncName = S_frac
         THEN Len(e.Args) = 2 /\ (MathRefs(e.Args[1]) \/ MathRefs(e.Args[2]))
         ELSE isSupported(e.FuncName)
    [] e.kind = "DerivativeExpr" -> e.Order \in {1, 2} /\ MathRefs(e.Body)
    [] e.kind = "PiecewiseExpr" ->
         \/ e.Cases # <<>> /\ e.Cases[Len(e.Cases)].Condition # Nil
         \/ \E k \in 1..Len(e.Cases) :
               MathRefs(e.Cases[k].Value) \/ MathRefs(e.Cases[k].Condition)
    [] e.kind = "LimitExpr" -> MathRefs(e.Approaches) \/ MathRefs(e.Body)
    [] e.kind = "IntegralExpr" ->
         e.IsDefinite /\ (MathRefs(e.Lower) \/ MathRefs(e.Upper) \/ MathRefs(e.Body))
    [] e.kind = "FactorialExpr" -> TRUE
    [] e.kind = "SumExpr" -> MathRefs(e.Lower) \/ MathRefs(e.Upper) \/ MathRefs(e.Body)
    [] OTHER -> FALSE

\* Generate has returned source code and no error
GeneratedOK == Generated /\ ~goCode.panic /\ goCode.err = NoError

\* the file Generate is to return: the import exactly when imports holds
FileWith(imports) ==
  header(config.PackageName, imports)
    \o funcBody(parsed.expr, config.FuncName, paramList(paramNames(parsed.expr)))

(***************************************************************************)
(* C11.  The generated file imports "math" if and only if the function     *)
(* body refers to math.* (Pow, Sqrt, Sin, Cos, Tan, Gamma, NaN): for every *)
(* AST variant the returned source has neither a missing nor an unused     *)
(* math import.                                                            *)
(***************************************************************************)
C11_MathImportIffUsed ==
  GeneratedOK => goCode.code = FileWith(MathRefs(parsed.expr))

(***************************************************************************)
(* Reading a parameter list: byte order of names, and the AST with the     *)
(* operands of every binary operator exchanged.                            *)
(***************************************************************************)
\* a sorts before b: a is a proper prefix of b, or the first character in
\* which they differ is the smaller one in a
Precedes(a, b) ==
  \E k \in 1..Len(b) :
     /\ \A j \in 1..(k - 1) : j <= Len(a) /\ a[j] = b[j]
     /\ k - 1 <= Len(a)
     /\ (k = Len(a) + 1 \/ Ord(a[k]) < Ord(b[k]))

RECURSIVE Mirror(_)
\* e with the variables met in the opposite order
Mirror(e) ==
  CASE e.kind = "BinaryExpr" -> BinaryExpr(e.Op, Mirror(e.Right), Mirror(e.Left))
    [] e.kind = "FuncCall" ->
         FuncCall(e.FuncName,
                  [k \in 1..Len(e.Args) |-> Mirror(e.Args[Len(e.Args) + 1 - k])])
    [] e.kind = "FactorialExpr" -> FactorialExpr(Mirror(e.Value))
    [] e.kind = "PiecewiseExpr" ->
         PiecewiseExpr([k \in 1..Len(e.Cases) |-> e.Cases[Len(e.Cases) + 1 - k]])
    [] OTHER -> e

\* the parameter names ascend strictly, whatever the order of occurrence
SortedParameters ==
  LET names == paramNames(parsed.expr)
  IN  /\ \A k \in 1..(Len(names) - 1) : Precedes(names[k], names[k + 1])
      /\ paramNames(Mirror(parsed.expr)) = names

\* the parameter names are the free variables, one parameter each
ParametersAreFreeVariables ==
  LET names == paramNames(parsed.expr)
  IN  { names[k] : k \in 1..Len(names) }
        = { sanitizeVariableName(v) : v \in FreeVars(parsed.expr) }

(***************************************************************************)
(* C12.  Generate is deterministic: the same AST, package name and         *)
(* function name give the same output; and the parameter list is the       *)
(* duplicate-free set of the free variable names in ascending              *)
(* lexicographic order, independent of the order in which the variables    *)
(* occur (z + y + x gives x, y, z).                                        *)
(***************************************************************************)
C12_DeterministicSortedParameters ==
  (Generated /\ ~goCode.panic) =>
     /\ goCode = Generate(parsed.expr, config.PackageName, config.FuncName)
     /\ SortedParameters
     /\ ParametersAreFreeVariables

RECURSIVE FactorialOfPrimary(_)
\* every factorial in e is applied to a variable or a number
FactorialOfPrimary(e) ==
  CASE e.kind = "FactorialExpr" -> e.Value.kind \in {"Variable", "NumberLiteral"}
    [] e.kind = "BinaryExpr" -> FactorialOfPrimary(e.Left) /\ FactorialOfPrimary(e.Right)
    [] OTHER -> TRUE

FactorialExamples ==
  { <<<<"a"," ","+"," ","b","!">>, Bin("+", V("a"), FactorialExpr(V("b")))>>,
    <<<<"a","!"," ","+"," ","b">>, Bin("+", FactorialExpr(V("a")), V("b"))>>,
    <<<<"(","a","!",")">>, FactorialExpr(V("a"))>>,
    <<<<"2"," ","*"," ","n","!">>, Bin("*", Num(2), FactorialExpr(V("n")))>> }

(***************************************************************************)
(* C13.  Postfix ! binds to the primary immediately before it and parsing  *)
(* continues normally with the token after it: a + b! is +(a, b!), a! + b  *)
(* is +(a!, b), (a!) is a!, 2 * n! is *(2, n!); and every parenthesis-free *)
(* arithmetic input with a factorial in it is accepted, with each ! on the *)
(* operand before it and no token lost.                                    *)
(***************************************************************************)
C13_FactorialBindsToPrimary ==
  /\ \A ex \in FactorialExamples :
        (Returned /\ latexInput = ex[1]) => parsed.ok /\ parsed.expr = ex[2]
  /\ (Returned /\ latexInput \in ArithInputs
        /\ \E k \in 1..Len(latexInput) : latexInput[k] = "!") =>
        /\ parsed.ok
        /\ FactorialOfPrimary(parsed.expr)
        /\ InOrder(parsed.expr) = Unspaced(latexInput)

(***************************************************************************)
(* C14.  For every \lim_{v \to e} body with v an identifier and e and body *)
(* expressions Parse accepts, Parse returns LimitExpr(v, parse(e),         *)
(* parse(body)): no token of e is dropped, also when e begins with a unary *)
(* minus or an opening parenthesis.                                        *)
(***************************************************************************)
C14_LimitKeepsApproachValue ==
  \A v \in LimitVars, value \in LimitValues, body \in LimitBodies :
     (/\ Returned
      /\ latexInput = LimitText(v, S_arrow, value, body)
      /\ Parse(value).ok
      /\ Parse(body).ok) =>
        /\ parsed.ok
        /\ parsed.expr = LimitExpr(v, Parse(value).expr, Parse(body).expr)

(***************************************************************************)
(* C15.  When no spelling of "to" is found in the subscript of a \lim_{..} *)
(* Parse does not fail for that reason: the missing arrow is a warning,    *)
(* and Parse still returns the LimitExpr of the variable, the value and    *)
(* the body.                                                               *)
(***************************************************************************)
C15_MissingArrowIsWarning ==
  \A v \in LimitVars, arrow \in NoArrows, value \in NoArrowValues, body \in LimitBodies :
     (Returned /\ latexInput = LimitText(v, arrow, value, body)) =>
        /\ parsed.ok
        /\ parsed.expr = LimitExpr(v, Parse(value).expr, Parse(body).expr)

(***************************************************************************)
(* C16.  \frac{d}{d<var>} body, or \frac{\partial}{\partial <var>} body,   *)
(* with a body that Parse accepts and that begins with an identifier, a    *)
(* number, a command or an opening parenthesis, parses to the first-order  *)
(* DerivativeExpr of parse(body) with respect to <var>, partial exactly in *)
(* the second form.                                                        *)
(***************************************************************************)
C16_DerivativeIdiom ==
  \A isPartial \in BOOLEAN, v \in DerivativeVars, body \in DerivativeBodies :
     (/\ Returned
      /\ latexInput = DerivativeText(isPartial, v, body)
      /\ Parse(body).ok) =>
        /\ parsed.ok
        /\ parsed.expr = DerivativeExpr(isPartial, v, 1, Parse(body).expr)

\* the bound of an integral: the parsed text, nothing for an indefinite one
BoundOf(bounds, k) == IF bounds = <<>> THEN Nil ELSE Parse(bounds[k]).expr

(***************************************************************************)
(* C17.  \int gives an IntegralExpr that is definite exactly when          *)
(* _{lower}^{upper} follows the command, whose body is the parsed          *)
(* integrand and whose variable is <var> when d<var> ends the input and x  *)
(* otherwise; for every integrand Parse accepts, also one that ends in a   *)
(* command call such as \sin{x} followed by dx.                            *)
(***************************************************************************)
C17_IntegralShape ==
  \A bounds \in IntegralBounds, integrand \in Integrands, v \in IntegralVars :
     (/\ Returned
      /\ latexInput = IntegralText(bounds, integrand, v)
      /\ Parse(integrand).ok) =>
        /\ parsed.ok
        /\ parsed.expr =
             IntegralExpr(bounds # <<>>, IF v = <<>> THEN <<"x">> ELSE v,
                          BoundOf(bounds, 1), BoundOf(bounds, 2),
                          Parse(integrand).expr)

\* the case a row stands for
CaseOf(r) ==
  PiecewiseCase(Parse(r[1]).expr, IF r[2] = <<>> THEN Nil ELSE Parse(r[2]).expr)

(***************************************************************************)
(* C18.  Inside \begin{cases} ... \end{cases} the parser collects one      *)
(* PiecewiseCase per row, in order, until \end{cases}: a row               *)
(* "value & condition" gives a case with that value and condition, a row   *)
(* without & a case with no condition, and rows separated by \\ are all    *)
(* collected.                                                              *)
(***************************************************************************)
C18_OneCasePerRow ==
  \A rs \in RowRuns(MaxRows) :
     (Returned /\ latexInput = CasesText(rs)) =>
        /\ parsed.ok
        /\ parsed.expr = PiecewiseExpr([k \in 1..Len(rs) |-> CaseOf(rs[k])])

RECURSIVE Sanitized(_)
\* e with every variable under the name sanitizeVariableName gives it
Sanitized(e) ==
  CASE e.kind = "Variable" -> Variable(sanitizeVariableName(e.Name))
    [] e.kind = "BinaryExpr" -> BinaryExpr(e.Op, Sanitized(e.Left), Sanitized(e.Right))
    [] e.kind = "FuncCall" ->
         FuncCall(e.FuncName, [k \in 1..Len(e.Args) |-> Sanitized(e.Args[k])])
    [] e.kind = "SumExpr" ->
         SumExpr(e.IsProduct, sanitizeVariableName(e.Var), Sanitized(e.Lower),
                 Sanitized(e.Upper), Sanitized(e.Body))
    [] e.kind = "IntegralExpr" ->
         IntegralExpr(e.IsDefinite, sanitizeVariableName(e.Var), Sanitized(e.Lower),
                      Sanitized(e.Upper), Sanitized(e.Body))
    [] e.kind = "DerivativeExpr" ->
         DerivativeExpr(e.IsPartial, sanitizeVariableName(e.Var), e.Order,
                        Sanitized(e.Body))
    [] e.kind = "LimitExpr" ->
         LimitExpr(sanitizeVariableName(e.Var), Sanitized(e.Approaches), Sanitized(e.Body))
    [] e.kind = "FactorialExpr" -> FactorialExpr(Sanitized(e.Value))
    [] e.kind = "PiecewiseExpr" ->
         PiecewiseExpr([k \in 1..Len(e.Cases) |->
                          PiecewiseCase(Sanitized(e.Cases[k].Value),
                                        Sanitized(e.Cases[k].Condition))])
    [] OTHER -> e

RECURSIVE VariablesOf(_)
\* the names of the variables that occur in e
VariablesOf(e) ==
  IF e.kind = "Variable" THEN {e.Name}
  ELSE UNION { VariablesOf(c) : c \in Children(e) }

(***************************************************************************)
(* C19.  A variable whose name is a Go reserved word (go, func, if, nil)   *)
(* is emitted with the sanitizing suffix consistently: in the parameter    *)
(* list and at every use in the function body, so that the output is the   *)
(* output for the AST with the variable renamed.                           *)
(***************************************************************************)
C19_KeywordSanitizedEverywhere ==
  (Generated /\ ~goCode.panic /\ VariablesOf(parsed.expr) \cap goKeywords # {}) =>
     goCode = Generate(Sanitized(parsed.expr), config.PackageName, config.FuncName)

RECURSIVE MisplacedDefault(_)
\* some PiecewiseExpr in e has a case without a condition before its last case
MisplacedDefault(e) ==
  \/ /\ e.kind = "PiecewiseExpr"
     /\ \E k \in 1..(Len(e.Cases) - 1) : e.Cases[k].Condition = Nil
  \/ \E c \in Children(e) : MisplacedDefault(c)

(***************************************************************************)
(* C20.  A case without a condition is the last case of its block: Parse   *)
(* need not reject another position, but Generate returns an error for     *)
(* every PiecewiseExpr that has a condition-less case before its last      *)
(* case, such as the AST of two condition-less rows.                       *)
(***************************************************************************)
C20_MisplacedDefaultIsError ==
  (Generated /\ ~goCode.panic /\ MisplacedDefault(parsed.expr)) =>
     goCode.err # NoError

\* a node Generate has no code for: an indefinite integral, a derivative
\* of an order other than 1 and 2
IsLimitation(e) ==
  \/ e.kind = "IntegralExpr" /\ ~e.IsDefinite
  \/ e.kind = "DerivativeExpr" /\ e.Order \notin {1, 2}

RECURSIVE HasLimitation(_)
HasLimitation(e) == IsLimitation(e) \/ \E c \in Children(e) : HasLimitation(c)

RECURSIVE WithoutLimitation(_)
\* e with a number in the place of every such node
WithoutLimitation(e) ==
  IF IsLimitation(e) THEN Num(0)
  ELSE CASE e.kind = "BinaryExpr" ->
              BinaryExpr(e.Op, WithoutLimitation(e.Left), WithoutLimitation(e.Right))
         [] e.kind = "FuncCall" ->
              FuncCall(e.FuncName, [k \in 1..Len(e.Args) |-> WithoutLimitation(e.Args[k])])
         [] e.kind = "SumExpr" ->
              SumExpr(e.IsProduct, e.Var, WithoutLimitation(e.Lower),
                      WithoutLimitation(e.Upper), WithoutLimitation(e.Body))
         [] e.kind = "IntegralExpr" ->
              IntegralExpr(e.IsDefinite, e.Var, WithoutLimitation(e.Lower),
                           WithoutLimitation(e.Upper), WithoutLimitation(e.Body))
         [] e.kind = "DerivativeExpr" ->
              DerivativeExpr(e.IsPartial, e.Var, e.Order, WithoutLimitation(e.Body))
         [] e.kind = "LimitExpr" ->
              LimitExpr(e.Var, WithoutLimitation(e.Approaches), WithoutLimitation(e.Body))
         [] e.kind = "FactorialExpr" -> FactorialExpr(WithoutLimitation(e.Value))
         [] e.kind = "PiecewiseExpr" ->
              PiecewiseExpr([k \in 1..Len(e.Cases) |->
                               PiecewiseCase(WithoutLimitation(e.Cases[k].Value),
                                             WithoutLimitation(e.Cases[k].Condition))])
         [] OTHER -> e

(***************************************************************************)
(* C21.  Generate succeeds on an AST that contains an indefinite           *)
(* IntegralExpr or a DerivativeExpr of an order other than 1 and 2,        *)
(* wherever that node sits in the tree: whenever Generate succeeds on the  *)
(* tree with a number in the node's place (and the tree has no function    *)
(* Generate is to reject), it succeeds on the tree itself, returning       *)
(* source text that carries the limitation marker.                         *)
(***************************************************************************)
C21_LimitationStillSucceeds ==
  (/\ Generated
   /\ ~goCode.panic
   /\ HasLimitation(parsed.expr)
   /\ UnsupportedNames(parsed.expr) = {}
   /\ Generate(WithoutLimitation(parsed.expr), config.PackageName,
               config.FuncName).err = NoError) =>
     /\ goCode.err = NoError
     /\ goCode.formatted

(***************************************************************************)
(* C22.  Generate is total: for every AST, and for every AST Parse can     *)
(* return (the PiecewiseExpr with no cases of \begin{cases}\end{cases}     *)
(* among them), Generate returns source text or an error and never aborts  *)
(* with a runtime fault.                                                   *)
(***************************************************************************)
C22_GenerateNeverPanics ==
  /\ pc # "panicked"
  /\ goCode # None => ~goCode.panic

\* the source Generate assembles before it formats it
RawSource ==
  header(config.PackageName, generateExpr(parsed.expr).needsMath)
    \o funcBody(parsed.expr, config.FuncName, paramList(paramNames(parsed.expr)))

(***************************************************************************)
(* C23.  Generate returns one of three shapes.  When the assembled source  *)
(* does not pass format.Source: the raw source, not empty, together with   *)
(* an error.  In the other failure, the unsupported function: the empty    *)
(* string with the error.  On success: the formatted source and no error.  *)
(***************************************************************************)
C23_ReturnShapes ==
  (Generated /\ ~goCode.panic) =>
     IF startsUnsupported(parsed.expr)
     THEN /\ goCode.err.kind = "unsupported"
          /\ goCode.code = ""
     ELSE IF ~SourceOK(parsed.expr, config.PackageName, config.FuncName,
                       paramNames(parsed.expr))
     THEN /\ goCode.err.kind = "format"
          /\ goCode.code = RawSource
          /\ goCode.code # ""
          /\ ~goCode.formatted
          /\ goCode.err.src = goCode.code
     ELSE /\ goCode.err = NoError
          /\ goCode.formatted
          /\ goCode.code # ""

\* Generate has returned the unformatted source of x + /* unsupported
\* function: foo */ ... together with the formatting error
C23_Witness ==
  /\ Generated
  /\ ~goCode.panic
  /\ goCode.err.kind = "format"
  /\ goCode.code = RawSource
  /\ ~startsUnsupported(parsed.expr)
  /\ UnsupportedNames(parsed.expr) # {}

\* how far Run has come
StageOf(at) ==
  CASE at = "start" -> 0 [] at = "parse" -> 1 [] at = "generate" -> 2
    [] at = "write" -> 3 [] OTHER -> 4

\* what the stages not yet invoked would have assigned is still unassigned
LaterStagesUntouched ==
  /\ runErr = "failed to get latex input" =>
        provider.failed /\ latexInput = <<>> /\ parsed = None /\ goCode = None
          /\ output = None
  /\ runErr = "failed to parse latex" =>
        parsed # None /\ ~parsed.ok /\ goCode = None /\ output = None
  /\ runErr = "failed to generate go code" =>
        parsed.ok /\ goCode # None /\ goCode.err # NoError /\ output = None
  /\ runErr = "failed to write go code" =>
        parsed.ok /\ goCode.err = NoError /\ output = None
  /\ runErr # "" => pc = "done"
  /\ output # None =>
        /\ ~provider.failed /\ parsed.ok /\ goCode.err = NoError /\ runErr = ""
        /\ output.code = goCode.code

\* one step of Run: the next stage in the order, invoked by this step only
StageStep ==
  /\ StageOf(pc') > StageOf(pc)
  /\ StageOf(pc') = StageOf(pc) + 1 \/ StageOf(pc') = 4
  /\ latexInput' # latexInput => pc = "start"
  /\ parsed' # parsed => pc = "parse" /\ parsed' = Parse(latexInput)
  /\ goCode' # goCode =>
        /\ pc = "generate"
        /\ parsed.ok
        /\ goCode' = Generate(parsed.expr, config.PackageName, config.FuncName)
  /\ output' # output =>
        /\ pc = "write"
        /\ goCode.err = NoError
        /\ output' = [kind |-> "written", code |-> goCode.code]
  /\ runErr' # runErr =>
        /\ runErr = ""
        /\ pc' = "done"
        /\ runErr' = CASE pc = "start" -> "failed to get latex input"
                       [] pc = "parse" -> "failed to parse latex"
                       [] pc = "generate" -> "failed to generate go code"
                       [] OTHER -> "failed to write go code"
  /\ (pc = "generate" /\ ~goCode'.panic /\ goCode'.err # NoError) => runErr' # ""
  /\ (pc = "parse" /\ ~parsed'.hang /\ ~parsed'.ok) => runErr' # ""
  /\ (pc = "start" /\ provider.failed) => runErr' # ""
  /\ LaterStagesUntouched'

(***************************************************************************)
(* C24.  Run invokes GetLatexInput, Parse, Generate and WriteGoCode in     *)
(* this order, each at most once, and stops at the first stage that        *)
(* returns an error: no later stage is invoked, the writer is called only  *)
(* after the three earlier stages succeeded and with exactly the           *)
(* generator's output, and the error Run returns has the prefix of the     *)
(* stage that failed.                                                      *)
(***************************************************************************)
C24_StagesInOrder == [][StageStep]_vars

\* Generate has failed: Run has returned its error and the writer was
\* never called
C24_Witness ==
  /\ pc = "done"
  /\ runErr = "failed to generate go code"
  /\ goCode # None
  /\ goCode.err.kind = "unsupported"
  /\ output = None

\* offset at which the i-th token of the input starts: the first
\* character that is not white space after the token before it
StartOf(input, toks, i) ==
  skipWhitespace(input, IF i = 1 THEN 0 ELSE toks[i - 1].End)

PosIsStart(input) ==
  ValueOf([toks \in {NewLexer(input)} |->
    \A i \in 1..Len(toks) : toks[i].Pos = StartOf(input, toks, i)])

(***************************************************************************)
(* C25.  Every token the lexer returns carries in Pos the byte offset at   *)
(* which it starts in the input, whatever its kind: in `a + b` the `+`     *)
(* has offset 2, in `\frac{123}{x^2}` the command has offset 0 and the     *)
(* first `{` offset 5.                                                     *)
(***************************************************************************)
C25_PosIsStartOffset ==
  (pc # "start" /\ ~provider.failed) =>
     /\ PosIsStart(latexInput)
     /\ NewLexer(<<"a", " ", "+", " ", "b">>)[2].Pos = 2
     /\ NewLexer(<<BSLASH>> \o S_frac \o <<"{", "1", "2", "3", "}">>)[1].Pos = 0
     /\ NewLexer(<<BSLASH>> \o S_frac \o <<"{", "1", "2", "3", "}">>)[2].Pos = 5

\* the call of c has returned from Parse
ParseReturned(c) == calls[c].parsed # None

(***************************************************************************)
(* C26.  No state is retained across or shared between requests: whatever  *)
(* calls were made before on the same Parser and Generator, and however    *)
(* the steps of concurrent calls interleave, each call of Parse and of     *)
(* Generate returns what it returns for its input when it runs alone.      *)
(***************************************************************************)
C26_CallsAreIndependent ==
  \A c \in Callers :
     /\ ParseReturned(c) => calls[c].parsed = Parse(calls[c].input)
     /\ calls[c].goCode # None =>
           calls[c].goCode = Generate(Parse(calls[c].input).expr, DefaultPackage,
                                      DefaultFunc)

\* two calls with different inputs, each pulling tokens while the other was
\* between two pulls, and one of them after an earlier call, have returned
C26_Witness ==
  /\ calls[1].stage = "done" /\ calls[2].stage = "done"
  /\ calls[1].overlapped /\ calls[2].overlapped
  /\ calls[1].input # calls[2].input
  /\ calls[1].n = 2
  /\ calls[1].goCode # None /\ calls[2].goCode # None

\* a value or condition that is a number or a name Go accepts as it is
PlainOperand(e) ==
  \/ e.kind = "NumberLiteral"
  \/ e.kind = "Variable" /\ e.Name \notin GoReserved

\* k >= 1 conditional cases in a row, then at most one default
IsChain(e, k) ==
  /\ e.kind = "PiecewiseExpr"
  /\ Len(e.Cases) \in {k, k + 1}
  /\ \A i \in 1..Len(e.Cases) :
        /\ PlainOperand(e.Cases[i].Value)
        /\ IF i <= k
           THEN e.Cases[i].Condition # Nil /\ PlainOperand(e.Cases[i].Condition)
           ELSE e.Cases[i].Condition = Nil

HasDefault(e) == e.Cases[Len(e.Cases)].Condition = Nil

(***************************************************************************)
(* C27.  For a PiecewiseExpr of k >= 1 conditional cases, with or without  *)
(* a final default, Generate returns syntactically valid source: one chain *)
(* of conditionals that tests the conditions in case order and returns the *)
(* value of the first case whose condition holds, the default when none    *)
(* holds, and NaN, with the math import, when there is no default.         *)
(***************************************************************************)
C27_PiecewiseChain ==
  (Generated /\ \E k \in 1..2 : IsChain(parsed.expr, k)) =>
     /\ ~goCode.panic
     /\ goCode.err = NoError
     /\ goCode.formatted
     /\ ~HasDefault(parsed.expr) => generateExpr(parsed.expr).needsMath

(***************************************************************************)
(* The Go reading of the loop emitted for a SumExpr whose bounds and body  *)
(* are arithmetic over variables and literals.                             *)
(***************************************************************************)
RECURSIVE Subst(_, _, _)
\* e with the variable v holding the integer k
Subst(e, v, k) ==
  CASE e.kind = "Variable" -> IF e.Name = v THEN Num(k) ELSE e
    [] e.kind = "BinaryExpr" ->
         BinaryExpr(e.Op, Subst(e.Left, v, k), Subst(e.Right, v, k))
    [] OTHER -> e

\* the integer part of the fraction f (f.d > 0), toward zero
Trunc(f) == IF f.n >= 0 THEN f.n \div f.d ELSE 0 - ((0 - f.n) \div f.d)

\* v < w for fractions with positive denominators
Below(v, w) == v.n * w.d < w.n * v.d

\* int(x): Go converts a constant only if it is an integer, and truncates
\* the value of a float64 expression
IntConvAccepted(e) ==
  e.kind = "NumberLiteral" => Value(e).n % Value(e).d = 0

\* result = result op (body)
Combine(isProduct, acc, v) ==
  IF isProduct THEN Frac(acc.n * v.n, acc.d * v.d)
  ELSE Frac(acc.n * v.d + v.n * acc.d, acc.d * v.d)

Initial(isProduct) == IF isProduct THEN Frac(1, 1) ELSE Frac(0, 1)

RECURSIVE GoLoop(_, _, _, _, _)
\* the for statement with its counter at i: the accumulator and the number
\* of iterations when it ends
GoLoop(e, i, up, acc, count) ==
  IF i > up THEN [result |-> acc, count |-> count]
  ELSE GoLoop(e, i + 1, up,
              Combine(e.IsProduct, acc, Value(Subst(e.Body, e.Var, i))), count + 1)

RECURSIVE Folded(_, _, _)
\* the body combined over the integers lo..up
Folded(e, lo, up) ==
  IF up < lo THEN Initial(e.IsProduct)
  ELSE Combine(e.IsProduct, Folded(e, lo, up - 1), Value(Subst(e.Body, e.Var, up)))

(***************************************************************************)
(* C28.  The code generated for a SumExpr starts the accumulator at 0.0    *)
(* (sum) or 1.0 (product), runs the bound variable over every integer from *)
(* trunc(lower) to trunc(upper) inclusive in ascending order, combines the *)
(* body with + or * once per value and returns the accumulator: exactly    *)
(* max(0, trunc(upper) - trunc(lower) + 1) iterations, and the initial     *)
(* accumulator when upper < lower.                                         *)
(***************************************************************************)
C28_SumLoop ==
  (Generated /\ parsed.expr \in SumInputs) =>
     ValueOf([e \in {parsed.expr} |->
     ValueOf([lo \in {Trunc(Value(e.Lower))} |->
     ValueOf([up \in {Trunc(Value(e.Upper))} |->
     ValueOf([run \in {GoLoop(e, lo, up, Initial(e.IsProduct), 0)} |->
       /\ ~goCode.panic
       /\ goCode.err = NoError
       /\ IntConvAccepted(e.Lower) /\ IntConvAccepted(e.Upper)
       /\ run.count = (IF up < lo THEN 0 ELSE up - lo + 1)
       /\ SameValue(run.result, Folded(e, lo, up))
       /\ Below(Value(e.Upper), Value(e.Lower)) =>
             run.result = Initial(e.IsProduct)])])])])

(***************************************************************************)
(* The Go reading of an emitted expression with literals: a literal %g     *)
(* prints without a fraction is an untyped integer constant, and an        *)
(* operation on two untyped integer constants is an integer operation.     *)
(***************************************************************************)
\* frac{a}{b} is emitted as the parenthesised quotient (a) / (b)
AsQuotient(e) ==
  IF e.kind = "FuncCall" THEN BinaryExpr(<<"/">>, e.Args[1], e.Args[2]) ELSE e

\* a value Go computes, and whether it is an untyped integer constant
Computed(v, isInt) == [val |-> v, int |-> isInt]

RECURSIVE GoRead(_)
GoRead(e) ==
  CASE e.kind = "Variable" -> Computed(Value(e), FALSE)
    [] e.kind = "NumberLiteral" -> Computed(Value(e), Value(e).n % Value(e).d = 0)
    [] OTHER ->
         LET l == GoRead(e.Left)
             r == GoRead(e.Right)
             real == IF e.Op = <<"+">>
                     THEN Frac(l.val.n * r.val.d + r.val.n * l.val.d, l.val.d * r.val.d)
                     ELSE IF e.Op = <<"-">>
                     THEN Frac(l.val.n * r.val.d - r.val.n * l.val.d, l.val.d * r.val.d)
                     ELSE IF e.Op = <<"*">>
                     THEN Frac(l.val.n * r.val.n, l.val.d * r.val.d)
                     ELSE IF r.val.n = 0 THEN Frac(0, 0)
                     ELSE IF r.val.n < 0
                     THEN Frac(0 - l.val.n * r.val.d, 0 - l.val.d * r.val.n)
                     ELSE Frac(l.val.n * r.val.d, l.val.d * r.val.n)
         IN  IF l.val.d = 0 \/ r.val.d = 0 THEN Computed(Frac(0, 0), FALSE)
             ELSE IF l.int /\ r.int /\ e.Op = <<"/">> /\ real.d # 0
             THEN Computed(Frac(Trunc(real), 1), TRUE)
             ELSE Computed(real, l.int /\ r.int)

(***************************************************************************)
(* C29.  All arithmetic of the generated function is floating-point: every *)
(* NumberLiteral is emitted so that Go treats it as a float64, so the      *)
(* quotient of two integer-valued literals (`1 / 2`, `\frac{1}{2}`) is the *)
(* real quotient 0.5 in the generated code, not a truncated integer        *)
(* quotient.                                                               *)
(***************************************************************************)
C29_FloatingPointQuotient ==
  (GeneratedOK /\ parsed.expr \in QuotientInputs) =>
     ValueOf([e \in {AsQuotient(parsed.expr)} |->
        SameValue(GoRead(GoGroup(Emitted(e))).val, Value(e))])

RECURSIVE GroupsLeft(_)
\* no + - * / has an operator of its own strength as its right operand
GroupsLeft(e) ==
  CASE e.kind = "BinaryExpr" ->
         /\ (~IsNegation(e) /\ e.Op # <<"^">>) => Strength(e.Right) # Strength(e)
         /\ GroupsLeft(e.Left) /\ GroupsLeft(e.Right)
    [] e.kind = "FactorialExpr" -> GroupsLeft(e.Value)
    [] OTHER -> TRUE

LeftAssocExamples ==
  { <<<<"a"," ","-"," ","b"," ","-"," ","c">>, Bin("-", Bin("-", V("a"), V("b")), V("c"))>>,
    <<<<"a"," ","/"," ","b"," ","/"," ","c">>, Bin("/", Bin("/", V("a"), V("b")), V("c"))>>,
    <<<<"a"," ","-"," ","b"," ","+"," ","c">>, Bin("+", Bin("-", V("a"), V("b")), V("c"))>>,
    <<<<"a"," ","/"," ","b"," ","*"," ","c">>, Bin("*", Bin("/", V("a"), V("b")), V("c"))>> }

(***************************************************************************)
(* C30.  + - * / are left-associative among operators of equal binding     *)
(* strength: a - b - c parses to -(-(a, b), c), a / b / c to               *)
(* /(/(a, b), c) and a - b + c to +(-(a, b), c), and in a parenthesis-free *)
(* input the right operand of such an operator is never an operator of    *)
(* the same strength.                                                      *)
(***************************************************************************)
C30_LeftAssociative ==
  /\ \A x \in LeftAssocExamples :
        (Returned /\ latexInput = x[1]) => parsed.ok /\ parsed.expr = x[2]
  /\ (Accepted /\ latexInput \in ArithInputs \cup ChainInputs) =>
        GroupsLeft(parsed.expr)

\* "a - b - c" has been parsed to -(-(a, b), c)
C30_Witness ==
  /\ Accepted
  /\ latexInput = <<"a"," ","-"," ","b"," ","-"," ","c">>
  /\ parsed.expr.Op = <<"-">>
  /\ parsed.expr.Left = Bin("-", V("a"), V("b"))
  /\ parsed.expr.Right = V("c")

====
